---- MODULE Spec2Model ----
(***************************************************************************)
(* Model of the bar-chart error-bar converter: ErrorBarDetector            *)
(* (src/error_detector.py), StatisticalEngine (src/statistical_engine.py)  *)
(* and the conversion / comparison pipeline of BarChartConverter           *)
(* (src/bar_converter.py).                                                 *)
(*                                                                         *)
(* Numbers.  Means and error bars are integers counting tenths (20 is 2.0).*)
(* Every magnitude the code derives from them has the form                 *)
(* +-sqrt(n/d) with n, d naturals, so a float is modelled exactly as a     *)
(* signed root [s, n, d]; comparisons are the exact comparisons of those   *)
(* reals.  Scores, confidences and p-values are floats built from decimal  *)
(* literals; they are modelled in ticks of 0.0001, a float that IEEE       *)
(* addition leaves one ulp off a decimal being one tick off it (0.7 + 0.1  *)
(* is 0.7999999999999999 in the code and 7999 here).                       *)
(* Python values that may be absent or of another type are records         *)
(* [kind, val, low]; an exception leaving a function is the field          *)
(* "raised" of its result.                                                 *)
(***************************************************************************)
EXTENDS Integers, Sequences, FiniteSets, TLC

VARIABLES
    detIn,        \* arguments of one detect_error_type call
    detOut,       \* its outcome
    convIn,       \* arguments of one convert_to_mean_sd call
    convOut,      \* its outcome
    cmpIn,        \* arguments of one _calculate_group_comparison call
    cmpOut,       \* its outcome
    groups,       \* parsed input table: group name -> sequence of measurements
    analysis,     \* analyze_error_types output: group name -> sequence
    results,      \* convert_bar_data output: group name -> sequence of records
    comparisons,  \* perform_group_comparisons output
    fnIn,         \* arguments of one call of a helper function
    fnOut,        \* its outcome
    pc,           \* position of the pipeline run
    raised        \* the exception that left a pipeline call, if any

vars == <<detIn, detOut, convIn, convOut, cmpIn, cmpOut,
          groups, analysis, results, comparisons, fnIn, fnOut, pc, raised>>

(***************************************************************************)
(* Bounds of the explored input space.                                     *)
(***************************************************************************)
MaxN == 30          \* sample sizes range over -1 .. MaxN
NumIndicators == 2  \* indicators per group in the pipeline
MaxCmpN == 6        \* compared records have sample sizes 0 .. MaxCmpN, or 20
MaxT == 100         \* t statistics range over 0 .. MaxT twentieths, and roots
MaxDf == 3          \* degrees of freedom range over -1 .. MaxDf
MaxDelta == 6       \* interpreted differences range over -MaxDelta .. MaxDelta
MaxFine == 40       \* fine error bars range over 0 .. MaxFine units of 0.0000001
MaxFineN == 5       \* their sample sizes range over 0 .. MaxFineN
MaxSd == 25         \* validated records have sd in -MaxSd .. MaxSd tenths
MaxOffset == 15     \* large error bars are 2^43 or 3 * 2^42 plus 0 .. MaxOffset ulps
MaxRoot == 5        \* their sample sizes are the squares of 1 .. MaxRoot
MaxItems == 2       \* batches hold 0 .. MaxItems items
MaxRows == 4        \* parsed tables hold 0 .. MaxRows rows

(***************************************************************************)
(* Python values.                                                          *)
(***************************************************************************)
None == [kind |-> "none", val |-> 0, low |-> 0]
Num(v) == [kind |-> "num", val |-> v, low |-> 0]
\* the text "upper/lower" of an error-bar cell (kept as a string by the parser)
Str(u, l) == [kind |-> "str", val |-> u, low |-> l]
\* a cell holding '/' whose parts are not two numbers ("a/b", "1/2/3")
BadStr == [kind |-> "badstr", val |-> 0, low |-> 0]

NoExc == "none"

\* the element of a one-element set.  TLC evaluates operator arguments by name;
\* the recursive operators below bind theirs to values first, writing
\* Val({body : x \in {argument}}), so that an argument is computed once.
Val(S) == CHOOSE r \in S : TRUE

(***************************************************************************)
(* Exact reals of the form s * sqrt(n / d).                                *)
(***************************************************************************)
RSign(v) == IF v > 0 THEN 1 ELSE IF v < 0 THEN -1 ELSE 0
RZero == [s |-> 0, n |-> 0, d |-> 1]
RInt(v) == [s |-> RSign(v), n |-> v * v, d |-> 1]
RAbs(x) == [x EXCEPT !.s = IF x.s = 0 THEN 0 ELSE 1]
RNeg(x) == [x EXCEPT !.s = 0 - x.s]
\* x * (p / q), p and q positive integers
RTimes(x, p, q) == IF x.s = 0 THEN RZero
                   ELSE [s |-> x.s, n |-> x.n * p * p, d |-> x.d * q * q]
\* x * sqrt(k), k >= 0
RTimesSqrt(x, k) == IF x.s = 0 \/ k = 0 THEN RZero
                    ELSE [s |-> x.s, n |-> x.n * k, d |-> x.d]
\* x / sqrt(k), k > 0
RDivSqrt(x, k) == IF x.s = 0 THEN RZero
                  ELSE [s |-> x.s, n |-> x.n, d |-> x.d * k]

\* a/c <= d/b for naturals a, d and positive c, b, by Euclid's algorithm
\* (no product is formed, so no overflow)
RECURSIVE FracLe(_, _, _, _)
FracLe(a, c, d, b) ==
    \E q1 \in {a \div c}, q2 \in {d \div b}, r1 \in {a % c}, r2 \in {d % b} :
        IF q1 # q2 THEN q1 < q2
        ELSE IF r1 = 0 THEN TRUE
        ELSE IF r2 = 0 THEN FALSE
        ELSE FracLe(b, r2, c, r1)

RLe(x, y) ==
    IF x.s # y.s THEN x.s < y.s
    ELSE IF x.s = 0 THEN TRUE
    ELSE IF x.s = 1 THEN FracLe(x.n, x.d, y.n, y.d)
    ELSE FracLe(y.n, y.d, x.n, x.d)
RLt(x, y) == ~RLe(y, x)
REq(x, y) == RLe(x, y) /\ RLe(y, x)

(***************************************************************************)
(* IEEE double addition of the score increments, in ticks of 0.0001.       *)
(* 0.7+0.1, 0.7+0.2, 0.7999999999999999+0.1 and 0.8999999999999999+0.1     *)
(* fall one ulp short; 0.4+0.2 overshoots by one ulp and                   *)
(* 0.6000000000000001+0.2 is 0.8 again.                                    *)
(***************************************************************************)
FloatAdd(x, y) ==
    CASE x = 7000 /\ y = 1000 -> 7999
      [] x = 7000 /\ y = 2000 -> 8999
      [] x = 7999 /\ y = 1000 -> 8999
      [] x = 8999 /\ y = 1000 -> 9999
      [] x = 4000 /\ y = 2000 -> 6001
      [] x = 6001 /\ y = 2000 -> 8000
      [] OTHER -> x + y

Min(a, b) == IF a < b THEN a ELSE b

(***************************************************************************)
(* Type labels.  A declared label is a Python str, modelled as the         *)
(* sequence of its characters so that upper() and strip() act on it.       *)
(***************************************************************************)
LowerCase == <<"a", "b", "c", "d", "e", "f", "g", "h", "i", "j", "k", "l", "m",
               "n", "o", "p", "q", "r", "s", "t", "u", "v", "w", "x", "y", "z">>
UpperCase == <<"A", "B", "C", "D", "E", "F", "G", "H", "I", "J", "K", "L", "M",
               "N", "O", "P", "Q", "R", "S", "T", "U", "V", "W", "X", "Y", "Z">>
Whitespace == {" ", "\t"}

\* str.upper() on one character
UpperChar(c) ==
    IF \E i \in 1..Len(LowerCase) : LowerCase[i] = c
    THEN UpperCase[CHOOSE i \in 1..Len(LowerCase) : LowerCase[i] = c]
    ELSE c
StrUpper(cs) == [i \in 1..Len(cs) |-> UpperChar(cs[i])]

\* str.strip(): leading and trailing whitespace removed
RECURSIVE LStrip(_)
LStrip(cs) ==
    Val({IF x # <<>> /\ Head(x) \in Whitespace THEN LStrip(Tail(x)) ELSE x : x \in {cs}})
RECURSIVE RStrip(_)
RStrip(cs) ==
    Val({IF x # <<>> /\ x[Len(x)] \in Whitespace
         THEN RStrip(SubSeq(x, 1, Len(x) - 1)) ELSE x : x \in {cs}})
StrStrip(cs) == RStrip(LStrip(cs))

\* the str a character sequence spells
RECURSIVE Text(_)
Text(cs) == Val({IF x = <<>> THEN "" ELSE Head(x) \o Text(Tail(x)) : x \in {cs}})

\* ErrorBarDetector.supported_types (the keys of the dict)
SupportedTypes == {"SE", "SD", "CI95", "CI99", "2SE", "ASYMMETRIC",
                   "SEM", "STD", "STDERR"}

\* a mapping that lacks the alias STDERR
TypeMappingNoStderr(t) ==
    CASE t = "SEM" -> "SE"
      [] t = "STD" -> "SD"
      [] t = "ASYM" -> "ASYMMETRIC"
      [] t = "ASYMM" -> "ASYMMETRIC"
      [] OTHER -> t

\* ErrorBarDetector.type_mapping.get(t, t)
TypeMapping(t) ==
    CASE t = "SEM" -> "SE"
      [] t = "STD" -> "SD"
      [] t = "STDERR" -> "SE"
      [] t = "ASYM" -> "ASYMMETRIC"
      [] t = "ASYMM" -> "ASYMMETRIC"
      [] OTHER -> t

\* _normalize_type; declared is None or Some(character sequence)
NoStr == [present |-> FALSE, chars |-> <<>>]
SomeStr(cs) == [present |-> TRUE, chars |-> cs]
NormalizeType(declared) ==
    IF ~declared.present \/ declared.chars = <<>> THEN "UNKNOWN"
    ELSE TypeMapping(Text(StrStrip(StrUpper(declared.chars))))

(***************************************************************************)
(* ErrorBarDetector._validate_declared_type.  ValidateConfidence is its    *)
(* body on numbers, in confidence ticks: eb > 0 and n > 0 hold past the    *)
(* first test, so math.sqrt and the divisions cannot raise there.          *)
(***************************************************************************)
\* a validation without the gross-implausibility test error_bar > abs(mean) * 3
ValidateConfidenceNoCap(mean, error_bar, declared_type, sample_size) ==
    LET eb == RInt(error_bar)
        am == RAbs(RInt(mean))
    IN  IF error_bar <= 0 \/ sample_size <= 0 THEN 0
        ELSE IF declared_type = "SD" THEN
            LET expected_se == RDivSqrt(eb, sample_size)
            IN  IF RLt(RZero, expected_se) /\ RLt(expected_se, eb) THEN 9000 ELSE 6000
        ELSE IF declared_type = "SE" THEN
            LET expected_sd == RTimesSqrt(eb, sample_size)
            IN  IF RLt(eb, expected_sd) /\ RLt(expected_sd, RTimes(am, 2, 1))
                THEN 9000 ELSE 6000
        ELSE IF declared_type \in {"CI95", "CI99"} THEN
            LET expected_se == IF declared_type = "CI95" THEN RTimes(eb, 25, 49)
                               ELSE RTimes(eb, 125, 322)
                expected_sd == RTimesSqrt(expected_se, sample_size)
            IN  IF RLt(RZero, expected_sd) /\ RLt(expected_sd, RTimes(am, 2, 1))
                THEN 8000 ELSE 5000
        ELSE IF declared_type = "2SE" THEN
            LET se == RTimes(eb, 1, 2)
                expected_sd == RTimesSqrt(se, sample_size)
            IN  IF RLt(RZero, expected_sd) /\ RLt(expected_sd, RTimes(am, 2, 1))
                THEN 8000 ELSE 5000
        ELSE 7000

\* the body of _validate_declared_type on numbers
ValidateConfidence(mean, error_bar, declared_type, sample_size) ==
    LET eb == RInt(error_bar)
        am == RAbs(RInt(mean))
    IN  IF error_bar <= 0 \/ sample_size <= 0 THEN 0
        ELSE IF RLt(RTimes(am, 3, 1), eb) THEN 3000
        ELSE IF declared_type = "SD" THEN
            LET expected_se == RDivSqrt(eb, sample_size)
            IN  IF RLt(RZero, expected_se) /\ RLt(expected_se, eb) THEN 9000 ELSE 6000
        ELSE IF declared_type = "SE" THEN
            LET expected_sd == RTimesSqrt(eb, sample_size)
            IN  IF RLt(eb, expected_sd) /\ RLt(expected_sd, RTimes(am, 2, 1))
                THEN 9000 ELSE 6000
        ELSE IF declared_type \in {"CI95", "CI99"} THEN
            LET expected_se == IF declared_type = "CI95" THEN RTimes(eb, 25, 49)
                               ELSE RTimes(eb, 125, 322)
                expected_sd == RTimesSqrt(expected_se, sample_size)
            IN  IF RLt(RZero, expected_sd) /\ RLt(expected_sd, RTimes(am, 2, 1))
                THEN 8000 ELSE 5000
        ELSE IF declared_type = "2SE" THEN
            LET se == RTimes(eb, 1, 2)
                expected_sd == RTimesSqrt(se, sample_size)
            IN  IF RLt(RZero, expected_sd) /\ RLt(expected_sd, RTimes(am, 2, 1))
                THEN 8000 ELSE 5000
        ELSE 7000

(***************************************************************************)
(* Plausibility scores of the auto-detection candidates.                   *)
(***************************************************************************)
\* 0.1 <= abs(sd / mean) <= 1.0, for mean # 0
CvInRange(mean, sd) ==
    LET am == RAbs(RInt(mean))
    IN  RLe(RTimes(am, 1, 10), RAbs(sd)) /\ RLe(RAbs(sd), am)

\* an SD score without the bonus for se < sd
ScoreSdAssumptionNoOrderBonus(mean, sd, se) ==
    LET am == RAbs(RInt(mean))
        s1 == 5000
        s2 == IF RLt(sd, RTimes(am, 3, 2)) THEN FloatAdd(s1, 2000)
              ELSE IF RLt(sd, RTimes(am, 2, 1)) THEN FloatAdd(s1, 1000)
              ELSE s1
        s3 == IF mean # 0 /\ CvInRange(mean, sd) THEN FloatAdd(s2, 1000) ELSE s2
    IN  Min(s3, 10000)

\* _score_sd_assumption
ScoreSdAssumption(mean, sd, se) ==
    LET am == RAbs(RInt(mean))
        s1 == IF RLt(se, sd) THEN FloatAdd(5000, 2000) ELSE 5000
        s2 == IF RLt(sd, RTimes(am, 3, 2)) THEN FloatAdd(s1, 2000)
              ELSE IF RLt(sd, RTimes(am, 2, 1)) THEN FloatAdd(s1, 1000)
              ELSE s1
        s3 == IF mean # 0 /\ CvInRange(mean, sd) THEN FloatAdd(s2, 1000) ELSE s2
    IN  Min(s3, 10000)

ScoreSeAssumption(mean, se, sd) ==
    LET am == RAbs(RInt(mean))
        s1 == IF RLt(se, sd) THEN FloatAdd(5000, 2000) ELSE 5000
        s2 == IF RLt(se, RTimes(am, 1, 2)) THEN FloatAdd(s1, 2000)
              ELSE IF RLt(se, am) THEN FloatAdd(s1, 1000)
              ELSE s1
        s3 == IF mean # 0 /\ CvInRange(mean, sd) THEN FloatAdd(s2, 1000) ELSE s2
    IN  Min(s3, 10000)

ScoreCiAssumption(mean, ci_half_width, se, sd) ==
    LET am == RAbs(RInt(mean))
        s1 == IF RLt(se, ci_half_width) /\ RLt(ci_half_width, am)
              THEN FloatAdd(4000, 3000)
              ELSE IF RLt(ci_half_width, RTimes(am, 3, 2)) THEN FloatAdd(4000, 2000)
              ELSE 4000
        s2 == IF mean # 0 /\ CvInRange(mean, sd) THEN FloatAdd(s1, 2000) ELSE s1
    IN  Min(s2, 8000)

\* the whole method: its first comparison, error_bar <= 0, raises TypeError on
\* a str, which the except clause (ValueError, ZeroDivisionError) lets through
ValidateDeclaredType(mean, error_bar, declared_type, sample_size) ==
    IF error_bar.kind # "num"
    THEN [confidence |-> 0, raised |-> "TypeError"]
    ELSE [confidence |-> ValidateConfidence(mean, error_bar.val, declared_type,
                                            sample_size),
          raised |-> NoExc]

(***************************************************************************)
(* ErrorBarDetector._auto_detect_type.                                     *)
(***************************************************************************)
DetResult(t, c, e) == [type |-> t, confidence |-> c, raised |-> e]

\* the five candidates in the order the code appends them (error_bar > 0, n > 0)
Candidates(mean, error_bar, sample_size) ==
    LET eb == RInt(error_bar)
        se_from_sd == RDivSqrt(eb, sample_size)
        sd_from_se == RTimesSqrt(eb, sample_size)
        se_from_ci95 == RTimes(eb, 25, 49)
        sd_from_ci95 == RTimesSqrt(se_from_ci95, sample_size)
        se_from_ci99 == RTimes(eb, 125, 322)
        sd_from_ci99 == RTimesSqrt(se_from_ci99, sample_size)
        se_from_2se == RTimes(eb, 1, 2)
        sd_from_2se == RTimesSqrt(se_from_2se, sample_size)
    IN  << <<"SD", ScoreSdAssumption(mean, eb, se_from_sd)>>,
           <<"SE", ScoreSeAssumption(mean, eb, sd_from_se)>>,
           <<"CI95", ScoreCiAssumption(mean, eb, se_from_ci95, sd_from_ci95)>>,
           <<"CI99", ScoreCiAssumption(mean, eb, se_from_ci99, sd_from_ci99)>>,
           <<"2SE", ScoreSeAssumption(mean, se_from_2se, sd_from_2se)>> >>

\* a maximum that keeps the last candidate holding the largest score
MaxByScoreLast(candidates) ==
    Val({c[CHOOSE i \in 1..Len(c) :
               /\ \A j \in 1..Len(c) : c[j][2] <= c[i][2]
               /\ \A j \in (i + 1)..Len(c) : c[j][2] < c[i][2]] : c \in {candidates}})

\* max(candidates, key=score): the first candidate holding the largest score
MaxByScore(candidates) ==
    Val({c[CHOOSE i \in 1..Len(c) :
               /\ \A j \in 1..Len(c) : c[j][2] <= c[i][2]
               /\ \A j \in 1..(i - 1) : c[j][2] < c[i][2]] : c \in {candidates}})

\* the try block: what it returns or raises
AutoDetectBody(mean, error_bar, sample_size) ==
    IF error_bar.kind # "num" THEN DetResult("UNKNOWN", 0, "TypeError")
    ELSE IF error_bar.val <= 0 THEN DetResult("UNKNOWN", 0, NoExc)
    ELSE IF sample_size < 0 THEN DetResult("UNKNOWN", 0, "ValueError")
    ELSE IF sample_size = 0 THEN DetResult("UNKNOWN", 0, "ZeroDivisionError")
    ELSE Val({DetResult(best[1], best[2], NoExc) :
              best \in {MaxByScore(Candidates(mean, error_bar.val, sample_size))}})

\* a narrower except clause: ZeroDivisionError would leave the method
AutoDetectCaughtValueErrorOnly == {"ValueError"}

\* except (ValueError, ZeroDivisionError): return 'UNKNOWN', 0.0
AutoDetectCaught == {"ValueError", "ZeroDivisionError"}

AutoDetectType(mean, error_bar, sample_size) ==
    LET r == AutoDetectBody(mean, error_bar, sample_size)
    IN  IF r.raised \in AutoDetectCaught THEN DetResult("UNKNOWN", 0, NoExc) ELSE r

(***************************************************************************)
(* ErrorBarDetector.detect_error_type.  mean, error_bar and sample_size    *)
(* are Python values, declared_type an optional str.                       *)
(***************************************************************************)
\* a weaker test: data count as missing only when all three are None
MissingDataAllAbsent(mean, error_bar, sample_size) ==
    mean.kind = "none" /\ error_bar.kind = "none" /\ sample_size.kind = "none"

\* not all([mean is not None, error_bar is not None, sample_size is not None])
MissingData(mean, error_bar, sample_size) ==
    mean.kind = "none" \/ error_bar.kind = "none" \/ sample_size.kind = "none"

\* a stricter threshold for the declared type: confidence > 0.7
DeclaredWinsAboveAuto(confidence) == confidence > 7000

\* a threshold that lets the capped confidence 0.3 win: confidence >= 0.3
DeclaredWinsAtCap(confidence) == confidence >= 3000

\* confidence > 0.5: the validated declared type is returned at once
DeclaredWins(confidence) == confidence > 5000

\* an inclusive threshold: confidence <= 0.7
FallbackAppliesInclusive(confidence) == confidence <= 7000

\* confidence < 0.7: auto-detection is too unsure to overrule a recognized label
FallbackApplies(confidence) == confidence < 7000

\* a detection that never falls back to the declared type
DetectAfterValidationNoFallback(mean, error_bar, normalized_declared, sample_size) ==
    AutoDetectType(mean.val, error_bar, sample_size.val)

\* lines 59-68 of detect_error_type: auto-detection, then the fallback
DetectAfterValidation(mean, error_bar, normalized_declared, sample_size) ==
    LET auto == AutoDetectType(mean.val, error_bar, sample_size.val)
    IN  IF auto.raised # NoExc THEN auto
        ELSE IF FallbackApplies(auto.confidence)
                /\ normalized_declared \in SupportedTypes
        THEN DetResult(normalized_declared, 6000, NoExc)
        ELSE auto

DetectErrorType(mean, error_bar, declared_type, sample_size) ==
    IF MissingData(mean, error_bar, sample_size)
    THEN DetResult("UNKNOWN", 0, NoExc)
    ELSE LET normalized_declared == NormalizeType(declared_type)
         IN  IF normalized_declared \in SupportedTypes
             THEN LET v == ValidateDeclaredType(mean.val, error_bar,
                                                normalized_declared, sample_size.val)
                  IN  IF v.raised # NoExc
                      THEN DetResult("UNKNOWN", 0, v.raised)
                      ELSE IF DeclaredWins(v.confidence)
                      THEN DetResult(normalized_declared, v.confidence, NoExc)
                      ELSE DetectAfterValidation(mean, error_bar,
                                                 normalized_declared, sample_size)
             ELSE DetectAfterValidation(mean, error_bar, normalized_declared,
                                        sample_size)

(***************************************************************************)
(* ErrorBarDetector.validate_conversion_input.  error_bar is in tenths;    *)
(* mean is [tenths, tiny], the float tenths / 10 + tiny * 0.00000000001,   *)
(* so that a mean below 1e-10 in magnitude need not be 0.  The reasons are *)
(* named in English.                                                       *)
(***************************************************************************)
\* abs(mean) < 1e-10
NearZero(mean) == mean.tenths = 0 /\ mean.tiny > -10 /\ mean.tiny < 10

\* error_bar > abs(mean) * m, for a natural m (m * |tiny| stays far below a tenth)
ExceedsMultiple(error_bar, mean, m) ==
    \E a \in {IF mean.tenths < 0 \/ (mean.tenths = 0 /\ mean.tiny < 0)
               THEN [tenths |-> 0 - mean.tenths, tiny |-> 0 - mean.tiny]
               ELSE mean} :
        \/ error_bar > m * a.tenths
        \/ error_bar = m * a.tenths /\ a.tiny < 0

\* a validation whose last test is inclusive (>= instead of >)
ValidateConversionInputInclusive(mean, error_bar, error_type, sample_size) ==
    IF sample_size <= 0 THEN [ok |-> FALSE, reason |-> "sample_size", raised |-> NoExc]
    ELSE IF error_bar <= 0 THEN [ok |-> FALSE, reason |-> "error_bar", raised |-> NoExc]
    ELSE IF error_type \notin SupportedTypes /\ error_type # "UNKNOWN"
    THEN [ok |-> FALSE, reason |-> "unsupported_type", raised |-> NoExc]
    ELSE IF NearZero(mean) /\ error_bar > 10
    THEN [ok |-> FALSE, reason |-> "near_zero_mean", raised |-> NoExc]
    ELSE IF ExceedsMultiple(error_bar + 1, mean, 5)
    THEN [ok |-> FALSE, reason |-> "error_bar_too_large", raised |-> NoExc]
    ELSE [ok |-> TRUE, reason |-> "ok", raised |-> NoExc]

ValidateConversionInput(mean, error_bar, error_type, sample_size) ==
    IF sample_size <= 0 THEN [ok |-> FALSE, reason |-> "sample_size", raised |-> NoExc]
    ELSE IF error_bar <= 0 THEN [ok |-> FALSE, reason |-> "error_bar", raised |-> NoExc]
    ELSE IF error_type \notin SupportedTypes /\ error_type # "UNKNOWN"
    THEN [ok |-> FALSE, reason |-> "unsupported_type", raised |-> NoExc]
    ELSE IF NearZero(mean) /\ error_bar > 10
    THEN [ok |-> FALSE, reason |-> "near_zero_mean", raised |-> NoExc]
    ELSE IF ExceedsMultiple(error_bar, mean, 5)
    THEN [ok |-> FALSE, reason |-> "error_bar_too_large", raised |-> NoExc]
    ELSE [ok |-> TRUE, reason |-> "ok", raised |-> NoExc]

(***************************************************************************)
(* StatisticalEngine.convert_to_mean_sd.  sd, se and conversion_factor are *)
(* exact reals (the rounding to 6 decimals leaves every value of the       *)
(* explored grid, whose magnitudes are at least 0.01, with its sign).      *)
(* Quality scores are in ticks of 0.0001.                                  *)
(***************************************************************************)
\* a method table that lacks ASYMMETRIC
ConversionMethodsSymmetric == {"SD", "SE", "CI95", "CI99", "2SE"}

\* StatisticalEngine.conversion_methods (the keys of the dict)
ConversionMethods == {"SD", "SE", "CI95", "CI99", "2SE", "ASYMMETRIC"}

\* the text of ValueError(f"...: {error_type}") raised for an unsupported type;
\* the prefix stands for the message's fixed (Chinese) part
UnsupportedMessage(error_type) == "unsupported error bar type: " \o error_type

\* _get_method_name
MethodName(error_type) ==
    CASE error_type = "SD" -> "direct_sd"
      [] error_type = "SE" -> "se_to_sd"
      [] error_type = "CI95" -> "ci95_to_sd"
      [] error_type = "CI99" -> "ci99_to_sd"
      [] error_type = "2SE" -> "2se_to_sd"
      [] OTHER -> "unknown"

ConvFailure(exc, msg) ==
    [raised |-> exc, message |-> msg, mean |-> 0, sd |-> RZero, se |-> RZero,
     conversion_factor |-> RZero, quality_score |-> 0, sample_size |-> 0,
     original_error_type |-> "", method_used |-> "", asymmetric_approximation |-> FALSE]

ConvRecord(mean, sd, se, factor, quality, error_type, sample_size) ==
    [raised |-> NoExc, message |-> "", mean |-> mean, sd |-> sd, se |-> se,
     conversion_factor |-> factor, quality_score |-> quality,
     sample_size |-> sample_size, original_error_type |-> error_type,
     method_used |-> MethodName(error_type),
     asymmetric_approximation |-> (error_type = "ASYMMETRIC")]

\* a table whose CI99 row divides by 1.96
SeOfTypeCI99As95(error_type, eb) ==
    CASE error_type = "CI95" -> RTimes(eb, 25, 49)
      [] error_type = "CI99" -> RTimes(eb, 25, 49)
      [] error_type = "2SE" -> RTimes(eb, 1, 2)
      [] OTHER -> eb

\* the se a type's formula derives from the error bar
SeOfType(error_type, eb) ==
    CASE error_type = "CI95" -> RTimes(eb, 25, 49)      \* / 1.96
      [] error_type = "CI99" -> RTimes(eb, 125, 322)    \* / 2.576
      [] error_type = "2SE" -> RTimes(eb, 1, 2)
      [] OTHER -> eb                                     \* SE, ASYMMETRIC

\* math.sqrt(n) / c of the type's formula
FactorOfType(error_type, root_n) ==
    CASE error_type = "CI95" -> RTimes(root_n, 25, 49)
      [] error_type = "CI99" -> RTimes(root_n, 125, 322)
      [] error_type = "2SE" -> RTimes(root_n, 1, 2)
      [] OTHER -> root_n

QualityOfType(error_type) ==
    CASE error_type = "SD" -> 10000
      [] error_type = "SE" -> 9500
      [] error_type = "CI95" -> 8500
      [] error_type = "CI99" -> 8500
      [] error_type = "2SE" -> 9000
      [] OTHER -> 7500                                   \* ASYMMETRIC

\* an SD path that divides by n instead of sqrt(n)
ConvertFromSdDividesByN(mean, error_bar, sample_size) ==
    IF sample_size < 0 THEN ConvFailure("ValueError", "math domain error")
    ELSE IF sample_size = 0 THEN ConvFailure("ZeroDivisionError", "float division by zero")
    ELSE ConvRecord(mean, RInt(error_bar), RTimes(RInt(error_bar), 1, sample_size),
                    RInt(1), QualityOfType("SD"), "SD", sample_size)

\* _convert_from_sd: sd / math.sqrt(n)
ConvertFromSd(mean, error_bar, sample_size) ==
    IF sample_size < 0 THEN ConvFailure("ValueError", "math domain error")
    ELSE IF sample_size = 0 THEN ConvFailure("ZeroDivisionError", "float division by zero")
    ELSE ConvRecord(mean, RInt(error_bar), RDivSqrt(RInt(error_bar), sample_size),
                    RInt(1), QualityOfType("SD"), "SD", sample_size)

\* _convert_from_se, _ci95, _ci99, _2se, _asymmetric: se * math.sqrt(n)
ConvertFromSeLike(mean, error_bar, error_type, sample_size) ==
    IF sample_size < 0 THEN ConvFailure("ValueError", "math domain error")
    ELSE LET se == SeOfType(error_type, RInt(error_bar))
         IN  ConvRecord(mean, RTimesSqrt(se, sample_size), se,
                        FactorOfType(error_type, RTimesSqrt(RInt(1), sample_size)),
                        QualityOfType(error_type), error_type, sample_size)

ConvertToMeanSd(mean, error_bar, error_type, sample_size) ==
    IF error_type \notin ConversionMethods
    THEN ConvFailure("ValueError", UnsupportedMessage(error_type))
    ELSE IF error_type = "SD" THEN ConvertFromSd(mean, error_bar, sample_size)
    ELSE ConvertFromSeLike(mean, error_bar, error_type, sample_size)

(***************************************************************************)
(* StatisticalEngine.validate_conversion_result.  mean is in tenths, sd    *)
(* and se are reals in tenths, so the tolerance 0.001 is 1/100.  The       *)
(* warnings are named in English.                                          *)
(***************************************************************************)
\* abs(se - expected_se) > 0.001, with expected_se = sd / math.sqrt(n) for
\* n > 0 and 0 otherwise.  Decided exactly when se equals expected_se (as in
\* every record convert_to_mean_sd returns for n > 0), when expected_se is 0,
\* or when se is a whole number of tenths up to 2 * MaxSd in magnitude; no
\* value is defined otherwise.
SeSdMismatch(sd, se, sample_size) ==
    \E expected_se \in {IF sample_size > 0 THEN RDivSqrt(sd, sample_size) ELSE RZero} :
        IF REq(se, expected_se) THEN FALSE
        ELSE IF expected_se.s = 0 THEN RLt(RTimes(RInt(1), 1, 100), RAbs(se))
        ELSE \E k \in {Val({j \in (0 - 2 * MaxSd)..(2 * MaxSd) : REq(se, RInt(j))})} :
               \/ RLt(RInt(100 * k + 1), RTimes(expected_se, 100, 1))
               \/ RLt(RTimes(expected_se, 100, 1), RInt(100 * k - 1))

\* a tier that a small sample resets to 'fair'
QualityAssessmentSmallSampleFair(mean, sd, sample_size) ==
    IF sample_size < 10 THEN "fair"
    ELSE IF mean # 0 /\ RLt(RInt(2 * (IF mean < 0 THEN 0 - mean ELSE mean)), RAbs(sd))
    THEN "poor"
    ELSE IF mean # 0 /\ RLt(RInt(IF mean < 0 THEN 0 - mean ELSE mean), RAbs(sd))
    THEN "fair"
    ELSE "good"

\* quality_assessment: cv = abs(sd / mean) when mean != 0, then the sample size
QualityAssessment(mean, sd, sample_size) ==
    IF mean # 0 /\ RLt(RInt(2 * (IF mean < 0 THEN 0 - mean ELSE mean)), RAbs(sd))
    THEN "poor"
    ELSE IF mean # 0 /\ RLt(RInt(IF mean < 0 THEN 0 - mean ELSE mean), RAbs(sd))
    THEN "fair"
    ELSE IF sample_size < 10 THEN "fair"
    ELSE "good"

ValidateConversionResult(result) ==
    Val({Val({[raised |-> NoExc,
               is_valid |-> w1 = <<>> /\ w2 = <<>>,
               warnings |-> w1 \o w2 \o w3 \o w4 \o w5,
               quality_assessment |-> q]
              : w1 \in {IF result.sd.s <= 0 THEN <<"sd_not_positive">> ELSE <<>>},
                w2 \in {IF result.se.s <= 0 THEN <<"se_not_positive">> ELSE <<>>},
                w3 \in {IF SeSdMismatch(result.sd, result.se, result.sample_size)
                        THEN <<"se_sd_inconsistent">> ELSE <<>>},
                w4 \in {IF result.mean # 0 /\ q = "poor" THEN <<"cv_very_large">>
                        ELSE IF result.mean # 0 /\ q = "fair"
                                /\ RLt(RInt(IF result.mean < 0 THEN 0 - result.mean
                                            ELSE result.mean), RAbs(result.sd))
                        THEN <<"cv_large">> ELSE <<>>},
                w5 \in {IF result.sample_size < 10 THEN <<"small_sample">> ELSE <<>>}})
         : q \in {QualityAssessment(result.mean, result.sd, result.sample_size)}})

(***************************************************************************)
(* StatisticalEngine.batch_convert.  An item is a dict, modelled as a      *)
(* record whose fields are the dict's keys; the state of the loop is       *)
(* [i, results, summary], i counting the items processed so far.           *)
(***************************************************************************)
\* lines 261-268: the empty result list and the zeroed summary
BatchStart ==
    [called |-> FALSE, i |-> 0, results |-> <<>>,
     summary |-> [total_conversions |-> 0, successful_conversions |-> 0,
                  failed_conversions |-> 0, conversion_types |-> <<>>,
                  quality_distribution |-> [good |-> 0, fair |-> 0, poor |-> 0]]]

\* the first of data['mean'], data['error_bar'], data['error_type'],
\* data['sample_size'] that raises KeyError; "" when all four are present
MissingKey(data) ==
    IF "mean" \notin DOMAIN data THEN "mean"
    ELSE IF "error_bar" \notin DOMAIN data THEN "error_bar"
    ELSE IF "error_type" \notin DOMAIN data THEN "error_type"
    ELSE IF "sample_size" \notin DOMAIN data THEN "sample_size"
    ELSE ""

\* result['validation'] = validation
WithValidation(result, validation) ==
    [k \in DOMAIN result \cup {"validation"} |->
        IF k = "validation" THEN validation ELSE result[k]]

\* lines 272-281 of the try block: the converted and validated record, or the
\* exception that leaves them (message: str(e))
TryConvert(data) ==
    IF MissingKey(data) # ""
    THEN ConvFailure("KeyError", "'" \o MissingKey(data) \o "'")
    ELSE ConvertToMeanSd(data.mean, data.error_bar, data.error_type, data.sample_size)

\* summary['conversion_types'][error_type] = ....get(error_type, 0) + 1
CountType(conversion_types, error_type) ==
    [t \in DOMAIN conversion_types \cup {error_type} |->
        IF t = error_type
        THEN (IF error_type \in DOMAIN conversion_types
              THEN conversion_types[error_type] ELSE 0) + 1
        ELSE conversion_types[t]]

\* a loop body that counts an item in total_conversions inside the try block
ProcessItemCountsInTry(state, data) ==
    Val({IF r.raised # NoExc
         THEN [state EXCEPT
                 !.results = Append(@, [error |-> r.message, input_data |-> data,
                                        conversion_failed |-> TRUE]),
                 !.summary.failed_conversions = @ + 1,
                 !.i = @ + 1]
         ELSE Val({[state EXCEPT
                      !.results = Append(@, WithValidation(r, v)),
                      !.summary.successful_conversions = @ + 1,
                      !.summary.conversion_types = CountType(@, data.error_type),
                      !.summary.quality_distribution[v.quality_assessment] = @ + 1,
                      !.summary.total_conversions = @ + 1,
                      !.i = @ + 1]
                   : v \in {ValidateConversionResult(r)}})
         : r \in {TryConvert(data)}})

\* lines 270-300: the body of the loop for one item
ProcessItem(state, data) ==
    Val({IF r.raised # NoExc
         THEN [state EXCEPT
                 !.results = Append(@, [error |-> r.message, input_data |-> data,
                                        conversion_failed |-> TRUE]),
                 !.summary.failed_conversions = @ + 1,
                 !.summary.total_conversions = @ + 1,
                 !.i = @ + 1]
         ELSE Val({[state EXCEPT
                      !.results = Append(@, WithValidation(r, v)),
                      !.summary.successful_conversions = @ + 1,
                      !.summary.conversion_types = CountType(@, data.error_type),
                      !.summary.quality_distribution[v.quality_assessment] = @ + 1,
                      !.summary.total_conversions = @ + 1,
                      !.i = @ + 1]
                   : v \in {ValidateConversionResult(r)}})
         : r \in {TryConvert(data)}})

(***************************************************************************)
(* BarChartConverter._parse_csv_structure.  A row is [kind, ...], kind     *)
(* being what the tests of the loop decide of its cells: "blank" (no cell  *)
(* or only white cells), "comment" (first cell starts with #), "header"    *)
(* (first cell is a group title; name and indicators are its stripped      *)
(* cells), "data" (first cell is a data label; label is the normalized     *)
(* label, values the converted cells) or "other".  A dict is a function    *)
(* on its keys, {} the function on no key.  current_group is "" for None:  *)
(* a group title is never empty.  The state of the loop is [i, groups,     *)
(* current_group, current_data, raised], i counting the rows consumed.     *)
(***************************************************************************)
EmptyDict == <<>>

\* lines 76-78: no group yet
ParseStart ==
    [called |-> FALSE, raised |-> NoExc, i |-> 0, groups |-> EmptyDict,
     current_group |-> "", current_data |-> EmptyDict]

\* d[key] = value
DictSet(d, key, value) ==
    [k \in DOMAIN d \cup {key} |-> IF k = key THEN value ELSE d[k]]

\* if current_group and current_data: groups[current_group] = current_data
StoreCurrent(st) ==
    IF st.current_group # "" /\ DOMAIN st.current_data # {}
    THEN DictSet(st.groups, st.current_group, st.current_data)
    ELSE st.groups

\* a loop body whose blank row also forgets the current group
ParseRowBlankForgets(st, row) ==
    IF row.kind = "blank"
    THEN [st EXCEPT !.groups = StoreCurrent(st), !.current_group = "",
                    !.current_data = EmptyDict, !.i = @ + 1]
    ELSE IF row.kind = "comment" THEN [st EXCEPT !.i = @ + 1]
    ELSE IF row.kind = "header"
    THEN [st EXCEPT !.groups = StoreCurrent(st),
                    !.current_group = row.name,
                    !.current_data = [indicators |-> row.indicators,
                                      indicator_count |-> Len(row.indicators),
                                      data |-> EmptyDict],
                    !.i = @ + 1]
    ELSE IF st.current_group # "" /\ row.kind = "data"
    THEN IF DOMAIN st.current_data = {}
         THEN [st EXCEPT !.raised = "KeyError", !.i = @ + 1]
         ELSE [st EXCEPT !.current_data.data = DictSet(@, row.label, row.values),
                         !.i = @ + 1]
    ELSE [st EXCEPT !.i = @ + 1]

\* lines 80-145: the body of the loop for one row.  current_data is {} or a
\* header's dict, so current_data['data'] raises KeyError exactly on {}.
ParseRow(st, row) ==
    IF row.kind = "blank"
    THEN [st EXCEPT !.groups = StoreCurrent(st),
                    !.current_data = IF st.current_group # "" /\ DOMAIN @ # {}
                                     THEN EmptyDict ELSE @,
                    !.i = @ + 1]
    ELSE IF row.kind = "comment" THEN [st EXCEPT !.i = @ + 1]
    ELSE IF row.kind = "header"
    THEN [st EXCEPT !.groups = StoreCurrent(st),
                    !.current_group = row.name,
                    !.current_data = [indicators |-> row.indicators,
                                      indicator_count |-> Len(row.indicators),
                                      data |-> EmptyDict],
                    !.i = @ + 1]
    ELSE IF st.current_group # "" /\ row.kind = "data"
    THEN IF DOMAIN st.current_data = {}
         THEN [st EXCEPT !.raised = "KeyError", !.i = @ + 1]
         ELSE [st EXCEPT !.current_data.data = DictSet(@, row.label, row.values),
                         !.i = @ + 1]
    ELSE [st EXCEPT !.i = @ + 1]

(***************************************************************************)
(* The return statements of the _convert_from_* methods: round(x, 6) of    *)
(* mean, sd and se.  Here the arguments are in units of 0.0000001 (seven   *)
(* decimals), so that rounding to six decimals acts: a rounded value is a  *)
(* multiple of 10 units.  round() rounds the binary double, which lies     *)
(* beside the decimal value, so a value exactly half-way between two       *)
(* multiples goes to either (round(0.0000005, 6) is 0.0, round(0.0000015,   *)
(* 6) is 0.000002); any other value goes to the nearest one.               *)
(***************************************************************************)
\* the multiples of 10 units within 5 units of the real x (at most
\* MaxFine * sqrt(MaxFineN) units in magnitude, so below 10 * MaxFine)
Round6(x) ==
    {10 * k : k \in {q \in (0 - MaxFine)..MaxFine :
                        RLe(RInt(10 * q - 5), x) /\ RLe(x, RInt(10 * q + 5))}}

\* the records convert_to_mean_sd can return: mean, sd and se rounded
\* (conversion_factor is carried unrounded)
ConvertToMeanSdRounded(mean, error_bar, error_type, sample_size) ==
    UNION {IF r.raised # NoExc THEN {r}
           ELSE {[r EXCEPT !.mean = m, !.sd = sd, !.se = se] :
                 m \in Round6(RInt(r.mean)), sd \in Round6(r.sd), se \in Round6(r.se)}
           : r \in {ConvertToMeanSd(mean, error_bar, error_type, sample_size)}}

(***************************************************************************)
(* IEEE doubles from 2^43 up, where neighbouring doubles are 2^-9 =        *)
(* 0.001953125 or more apart.  [c, j] is the double c * 2^42 + j * 2^-9     *)
(* (c >= 2, j a small natural, a multiple of the spacing at c * 2^42).     *)
(* A product or quotient is the exact value rounded to the nearest double, *)
(* ties to the even significand; round(x, 6) returns such an x unchanged.  *)
(***************************************************************************)
Big(c, j) == [c |-> c, j |-> j]

\* the spacing of the doubles from c * 2^42 on, in units of 2^-9
RECURSIVE Ulp(_)
Ulp(c) == IF c < 4 THEN 1 ELSE 2 * Ulp(c \div 2)

\* the multiple of u nearest to num / den, the even multiple on a tie
NearestEven(num, den, u) ==
    Val({IF 2 * (num - q * den * u) < den * u THEN q * u
         ELSE IF 2 * (num - q * den * u) > den * u THEN (q + 1) * u
         ELSE IF q % 2 = 0 THEN q * u ELSE (q + 1) * u
         : q \in {num \div (den * u)}})

\* math.sqrt(n) of a perfect square n (exact in doubles)
RootOfSquare(n) == CHOOSE k \in 0..n : k * k = n

\* x * math.sqrt(n)
FlTimesRoot(x, n) ==
    Val({Big(k * x.c, NearestEven(k * x.j, 1, Ulp(k * x.c))) : k \in {RootOfSquare(n)}})

\* x / math.sqrt(n), for x.c a multiple of the root
FlOverRoot(x, n) ==
    Val({Big(x.c \div k, NearestEven(x.j, k, Ulp(x.c \div k))) : k \in {RootOfSquare(n)}})

\* _convert_from_se and _convert_from_asymmetric on a large error bar
\* (mean is a small integer)
ConvertFromSeLarge(mean, error_bar, error_type, sample_size) ==
    [mean |-> mean, sd |-> FlTimesRoot(error_bar, sample_size), se |-> error_bar,
     quality_score |-> QualityOfType(error_type), sample_size |-> sample_size,
     original_error_type |-> error_type]

\* abs(se - sd / math.sqrt(n)) > 0.001, in units of 2^-9 = 1/512
SeSdInconsistent(sd, se, sample_size) ==
    \E expected_se \in {FlOverRoot(sd, sample_size)} :
        \/ expected_se.c # se.c
        \/ 1000 * (IF se.j > expected_se.j THEN se.j - expected_se.j
                   ELSE expected_se.j - se.j) > 512

\* validate_conversion_result on such a record: sd and se are positive and
\* abs(sd / mean) is far above 2.0 when mean is not 0.  The warnings are
\* named in English.
ValidateLarge(result) ==
    Val({[is_valid |-> TRUE, warnings |-> w1 \o w2 \o w3,
          quality_assessment |-> IF result.mean # 0 THEN "poor"
                                 ELSE IF result.sample_size < 10 THEN "fair"
                                 ELSE "good"]
         : w1 \in {IF SeSdInconsistent(result.sd, result.se, result.sample_size)
                   THEN <<"se_sd_inconsistent">> ELSE <<>>},
           w2 \in {IF result.mean # 0 THEN <<"cv_very_large">> ELSE <<>>},
           w3 \in {IF result.sample_size < 10 THEN <<"small_sample">> ELSE <<>>}})

(***************************************************************************)
(* Non-negative rationals [n, d], kept in lowest terms: the squares of the *)
(* reals above, which _calculate_group_comparison adds.                    *)
(***************************************************************************)
RECURSIVE Gcd(_, _)
Gcd(a, b) == Val({IF y = 0 THEN x ELSE Gcd(y, x % y) : x \in {a}, y \in {b}})
RatNorm(n, d) == IF n = 0 THEN [n |-> 0, d |-> 1]
                 ELSE Val({[n |-> n \div g, d |-> d \div g] : g \in {Gcd(n, d)}})
RatAdd(x, y) == RatNorm(x.n * y.d + y.n * x.d, x.d * y.d)
RatTimesInt(x, k) == RatNorm(x.n * k, x.d)
RatDivInt(x, k) == RatNorm(x.n, x.d * k)
\* x ** 2 of a real, and math.sqrt of a rational
RSquare(x) == RatNorm(x.n, x.d)
RSqrt(q) == [s |-> IF q.n = 0 THEN 0 ELSE 1, n |-> q.n, d |-> q.d]
\* a quotient that drops the sign of delta
RIntOverMagnitude(delta, x) ==
    IF delta = 0 THEN RZero
    ELSE Val({[s |-> 1, n |-> q.n, d |-> q.d] :
              q \in {RatNorm(delta * delta * x.d, x.n)}})

\* delta / x for an integer delta and a real x > 0
RIntOver(delta, x) ==
    IF delta = 0 THEN RZero
    ELSE Val({[s |-> RSign(delta) * x.s, n |-> q.n, d |-> q.d] :
              q \in {RatNorm(delta * delta * x.d, x.n)}})

\* a z table whose default is the 0.90 entry
ZScoreDefault90(confidence_level) ==
    CASE confidence_level = 9000 -> <<329, 200>>
      [] confidence_level = 9500 -> <<49, 25>>
      [] confidence_level = 9900 -> <<322, 125>>
      [] OTHER -> <<329, 200>>

(***************************************************************************)
(* BarChartConverter._calculate_group_comparison and its helpers.          *)
(* Confidence levels and p-values are in ticks of 0.0001.                  *)
(***************************************************************************)
\* _get_z_score: z as the fraction p/q
ZScore(confidence_level) ==
    CASE confidence_level = 9000 -> <<329, 200>>     \* 1.645
      [] confidence_level = 9500 -> <<49, 25>>       \* 1.96
      [] confidence_level = 9900 -> <<322, 125>>     \* 2.576
      [] OTHER -> <<49, 25>>

\* a step function without the case t_stat == 0
CalculatePValueNoZeroCase(t_stat, df) ==
    IF df <= 0 THEN 10000
    ELSE IF RLt(RInt(4), t_stat) THEN 1
    ELSE IF RLt(RInt(3), t_stat) THEN 100
    ELSE IF RLt(RInt(2), t_stat) THEN 500
    ELSE IF RLt(RTimes(RInt(3), 1, 2), t_stat) THEN 1000
    ELSE 2000

\* a step function whose boundaries are inclusive (>= instead of >)
CalculatePValueInclusive(t_stat, df) ==
    IF df <= 0 THEN 10000
    ELSE IF t_stat.s = 0 THEN 10000
    ELSE IF RLe(RInt(4), t_stat) THEN 1
    ELSE IF RLe(RInt(3), t_stat) THEN 100
    ELSE IF RLe(RInt(2), t_stat) THEN 500
    ELSE IF RLe(RTimes(RInt(3), 1, 2), t_stat) THEN 1000
    ELSE 2000

\* _calculate_p_value on abs(t_stat)
CalculatePValue(t_stat, df) ==
    IF df <= 0 THEN 10000
    ELSE IF t_stat.s = 0 THEN 10000
    ELSE IF RLt(RInt(4), t_stat) THEN 1
    ELSE IF RLt(RInt(3), t_stat) THEN 100
    ELSE IF RLt(RInt(2), t_stat) THEN 500
    ELSE IF RLt(RTimes(RInt(3), 1, 2), t_stat) THEN 1000
    ELSE 2000

\* alpha = 1 - confidence_level in IEEE doubles: 1 - 0.95 is 0.050000000000000044
\* (above 0.05), 1 - 0.99 is 0.010000000000000009 (above 0.01), 1 - 0.9 is
\* 0.09999999999999998 (below 0.1) and 1 - 0.8 is 0.19999999999999996 (below 0.2)
Alpha(confidence_level) ==
    CASE confidence_level = 9500 -> 501
      [] confidence_level = 9900 -> 101
      [] confidence_level = 9000 -> 999
      [] confidence_level = 8000 -> 1999
      [] OTHER -> 10000 - confidence_level

\* an interval bound delta_mean -+ z_score * sd_diff: the sum of an integer
\* (tenths) and a real
Aff(base, off) == [base |-> base, off |-> off]
AffZero == Aff(0, RZero)
AffPositive(x) == RLt(RInt(0 - x.base), x.off)
AffNegative(x) == RLt(x.off, RInt(0 - x.base))

\* an interpretation whose tests are inclusive (>= 0 and <= 0)
InterpretComparisonInclusive(delta_mean, ci_lower, ci_upper, significant) ==
    IF significant
    THEN IF ~AffNegative(ci_lower) THEN "significant, a > b"
         ELSE IF ~AffPositive(ci_upper) THEN "significant, a < b"
         ELSE "significant, CI spans 0"
    ELSE "not significant"

\* _interpret_comparison.  The labels stand for the method's (Chinese) texts.
InterpretComparison(delta_mean, ci_lower, ci_upper, significant) ==
    IF significant
    THEN IF AffPositive(ci_lower) THEN "significant, a > b"
         ELSE IF AffNegative(ci_upper) THEN "significant, a < b"
         ELSE "significant, CI spans 0"
    ELSE "not significant"

CmpFailure(exc) ==
    [raised |-> exc, delta_mean |-> 0, sd_diff |-> RZero, margin |-> RZero,
     ci_lower |-> AffZero, ci_upper |-> AffZero, z_score |-> <<0, 1>>,
     confidence_level |-> 0, cohens_d |-> RZero, hedges_g |-> RZero, p_value |-> 0,
     significant |-> FALSE, t_statistic |-> RZero, degrees_of_freedom |-> 0,
     interpretation |-> ""]

\* an effect size without the small-sample correction
HedgesGUncorrected(cohens_d, total) == cohens_d

\* cohens_d * (1 - 3 / (4 * total - 9)), total = n1 + n2 >= 3
HedgesG(cohens_d, total) ==
    IF 4 * total - 12 = 0 THEN RZero
    ELSE RTimes(cohens_d, 4 * total - 12, 4 * total - 9)

\* the statements after sd_diff and pooled_sd were computed without error
ComparisonValues(g1, g2, confidence_level, sd_diff, pooled_sd) ==
    LET delta_mean == g1.mean - g2.mean
        z == ZScore(confidence_level)
        margin == RTimes(sd_diff, z[1], z[2])
        cohens_d == IF pooled_sd.s > 0 THEN RIntOver(delta_mean, pooled_sd) ELSE RZero
        df == g1.sample_size + g2.sample_size - 2
        t_stat == IF sd_diff.s > 0 THEN RIntOver(delta_mean, sd_diff) ELSE RZero
        p_value == CalculatePValue(RAbs(t_stat), df)
        significant == p_value < Alpha(confidence_level)
    IN  [raised |-> NoExc, delta_mean |-> delta_mean, sd_diff |-> sd_diff,
         margin |-> margin, ci_lower |-> Aff(delta_mean, RNeg(margin)),
         ci_upper |-> Aff(delta_mean, margin), z_score |-> z,
         confidence_level |-> confidence_level,
         cohens_d |-> cohens_d,
         hedges_g |-> HedgesG(cohens_d, g1.sample_size + g2.sample_size),
         p_value |-> p_value, significant |-> significant, t_statistic |-> t_stat,
         degrees_of_freedom |-> df,
         interpretation |-> InterpretComparison(delta_mean,
                                                Aff(delta_mean, RNeg(margin)),
                                                Aff(delta_mean, margin), significant)]

\* group records carry mean (tenths), sd (a real) and sample_size >= 0.
\* sd ** 2 / sample_size divides by the int sample_size, and the pooled
\* variance by the int n1 + n2 - 2: a zero divisor raises ZeroDivisionError.
CalculateGroupComparison(g1, g2, confidence_level) ==
    IF g1.sample_size = 0 \/ g2.sample_size = 0 THEN CmpFailure("ZeroDivisionError")
    ELSE IF g1.sample_size + g2.sample_size - 2 = 0 THEN CmpFailure("ZeroDivisionError")
    ELSE LET v1 == RSquare(g1.sd)
             v2 == RSquare(g2.sd)
             sd_diff == RSqrt(RatAdd(RatDivInt(v1, g1.sample_size),
                                     RatDivInt(v2, g2.sample_size)))
             pooled_sd == RSqrt(RatDivInt(
                              RatAdd(RatTimesInt(v1, g1.sample_size - 1),
                                     RatTimesInt(v2, g2.sample_size - 1)),
                              g1.sample_size + g2.sample_size - 2))
         IN  ComparisonValues(g1, g2, confidence_level, sd_diff, pooled_sd)

(***************************************************************************)
(* The pipeline of BarChartConverter.  A measurement is one indicator's    *)
(* column of a parsed group: Mean and Sample_Size are a float or None,     *)
(* Error_Bar a float, a str holding '/' or None, Error_Type an upper-cased *)
(* str or None.                                                            *)
(***************************************************************************)
GroupNames == {"Baseline", "Intervention"}

\* the header cell of indicator i; both groups carry the same header row, as in
\* the table generate_template writes
IndicatorName(i) == "Indicator" \o ToString(i)

\* _extract_indicator_data: the upper/lower text of an ASYMMETRIC error bar is
\* replaced by the mean of its two parts; any other value is kept
ExtractIndicatorData(m) ==
    IF m.Error_Type.present /\ Text(m.Error_Type.chars) = "ASYMMETRIC"
       /\ m.Error_Bar.kind = "str"
    THEN [m EXCEPT !.Error_Bar = Num((m.Error_Bar.val + m.Error_Bar.low) \div 2)]
    ELSE m

\* _check_data_completeness
CheckDataCompleteness(data) ==
    /\ data.Mean.kind # "none"
    /\ data.Error_Bar.kind # "none"
    /\ data.Error_Type.present
    /\ data.Sample_Size.kind # "none"

\* one iteration of the loop of analyze_error_types
AnalyzeIndicator(m, i) ==
    Val({ Val({ [indicator_index |-> i,
                 indicator_name |-> IndicatorName(i),
                 declared_type |-> IF data.Error_Type.present
                                   THEN Text(data.Error_Type.chars) ELSE "UNKNOWN",
                 detected_type |-> det.type,
                 confidence |-> det.confidence,
                 data_complete |-> CheckDataCompleteness(data),
                 data |-> data,
                 raised |-> det.raised]
                : det \in {DetectErrorType(data.Mean, data.Error_Bar, data.Error_Type,
                                           data.Sample_Size)} })
          : data \in {ExtractIndicatorData(m)} })

\* analyze_error_types over one group
AnalyzeGroup(ms) == [i \in 1..Len(ms) |-> AnalyzeIndicator(ms[i], i)]

\* the exception leaving analyze_error_types: that of the first failing indicator
RECURSIVE FirstRaised(_)
FirstRaised(entries) ==
    Val({IF es = <<>> THEN NoExc
         ELSE IF Head(es).raised # NoExc THEN Head(es).raised
         ELSE FirstRaised(Tail(es)) : es \in {entries}})

\* the body of the conversion loop of convert_bar_data for one analysed
\* indicator: <<>> when it is skipped or its conversion raises (the except
\* clause swallows every Exception), else the one record appended
ConvertIndicator(ind) ==
    IF ~ind.data_complete THEN <<>>
    ELSE Val({IF r.raised # NoExc THEN <<>>
              ELSE << [mean |-> r.mean, sd |-> r.sd, se |-> r.se,
                       sample_size |-> r.sample_size,
                       quality_score |-> r.quality_score,
                       original_error_type |-> r.original_error_type,
                       indicator_name |-> ind.indicator_name,
                       declared_type |-> ind.declared_type,
                       detected_type |-> ind.detected_type,
                       confidence |-> ind.confidence,
                       conversion_method |-> r.method_used] >>
              : r \in {ConvertToMeanSd(ind.data.Mean.val, ind.data.Error_Bar.val,
                                       ind.detected_type, ind.data.Sample_Size.val)}})

RECURSIVE ConvertGroup(_)
ConvertGroup(entries) ==
    Val({IF es = <<>> THEN <<>>
         ELSE ConvertIndicator(Head(es)) \o ConvertGroup(Tail(es)) : es \in {entries}})

\* the pairing loop of perform_group_comparisons from index i on
RECURSIVE PairComparisons(_, _, _, _)
PairComparisons(baseline_results, intervention_results, confidence_level, i) ==
    Val({IF k > Len(baseline_results) THEN <<>>
         ELSE IF k <= Len(intervention_results)
         THEN << [comparison_id |-> "Intervention_vs_Baseline_"
                                    \o baseline_results[k].indicator_name,
                  indicator_name |-> baseline_results[k].indicator_name,
                  group1_data |-> intervention_results[k],
                  group2_data |-> baseline_results[k],
                  stats |-> CalculateGroupComparison(intervention_results[k],
                                                     baseline_results[k],
                                                     confidence_level)] >>
              \o PairComparisons(baseline_results, intervention_results,
                                 confidence_level, k + 1)
         ELSE PairComparisons(baseline_results, intervention_results,
                              confidence_level, k + 1) : k \in {i}})

RECURSIVE FirstStatsRaised(_)
FirstStatsRaised(cs) ==
    Val({IF x = <<>> THEN NoExc
         ELSE IF Head(x).stats.raised # NoExc THEN Head(x).stats.raised
         ELSE FirstStatsRaised(Tail(x)) : x \in {cs}})

(***************************************************************************)
(* Explored inputs (means and error bars in tenths).                       *)
(***************************************************************************)
MeanValues == {-20, 0, 5, 20, 100}
ErrorBarValues == {-10, 0, 5, 20, 35, 50, 60}
SampleSizes == -1..MaxN

\* declared labels as written by a user: canonical, lower case, padded, aliases,
\* unrecognized, blank and empty
DeclaredStrings ==
    { <<"S", "D">>, <<"s", "e">>, <<" ", "s", "e", "m", " ">>, <<"S", "T", "D">>,
      <<"s", "t", "d", "e", "r", "r">>, <<"C", "I", "9", "5">>,
      <<"c", "i", "9", "9", " ">>, <<"2", "s", "e">>,
      <<"A", "S", "Y", "M", "M", "E", "T", "R", "I", "C">>,
      <<"a", "s", "y", "m">>, <<"A", "s", "y", "m", "m">>,
      <<"U", "N", "K", "N", "O", "W", "N">>, <<"f", "o", "o">>,
      <<"S", " ", "E">>, <<" ">>, <<>> }

OptionalNumbers(S) == {None} \cup {Num(v) : v \in S}

DetectInputs ==
    [mean : OptionalNumbers(MeanValues),
     error_bar : OptionalNumbers(ErrorBarValues),
     declared_type : {NoStr} \cup {SomeStr(cs) : cs \in DeclaredStrings},
     sample_size : OptionalNumbers(SampleSizes)]

ConvertTypes == {"SD", "SE", "CI95", "CI99", "2SE", "ASYMMETRIC",
                 "UNKNOWN", "SEM", "sd", "FOO", ""}
ConvertInputs ==
    [mean : {-20, 0, 100}, error_bar : {-10, 0, 5, 20, 60},
     error_type : ConvertTypes, sample_size : SampleSizes]

\* records handed to _calculate_group_comparison, and confidence levels
CompareRecords ==
    [mean : {100, 105, 120}, sd : {RInt(0), RInt(20), RInt(22)},
     sample_size : (0..MaxCmpN) \cup {20}]
ConfidenceLevels == {9000, 9500, 9900, 8000, 5000, 1}
CompareInputs == [g1 : CompareRecords, g2 : CompareRecords,
                  confidence_level : ConfidenceLevels]

\* arguments of convert_to_mean_sd in units of 0.0000001
FineInputs ==
    [fn : {"convert"}, mean : {-13, 0, 25, 104}, error_bar : 0..MaxFine,
     error_type : {"SD", "SE", "CI95", "CI99", "2SE", "ASYMMETRIC"},
     sample_size : 0..MaxFineN]

\* arguments of validate_conversion_input
InputCheckInputs ==
    [fn : {"validate_input"},
     mean : [tenths : {-10, 0, 2, 10}, tiny : {-5, 0, 5, 10}],
     error_bar : {-5, 0, 1, 9, 10, 11, 49, 50, 51},
     error_type : {"SD", "SE", "CI95", "ASYMMETRIC", "STDERR", "UNKNOWN", "FOO", "sd", ""},
     sample_size : {-1, 0, 1, 30}]

\* items of a batch: complete dicts, a dict without 'sample_size' and a dict
\* without 'mean'
BatchItems ==
    [mean : {0, 10}, error_bar : {5, 30}, error_type : {"SD", "SE", "FOO"},
     sample_size : {0, 4, 30}]
    \cup {[mean |-> 10, error_bar |-> 5, error_type |-> "SD"],
          [error_bar |-> 5, error_type |-> "SE", sample_size |-> 30]}

\* lists handed to batch_convert
BatchInputs ==
    {[fn |-> "batch_convert", data_list |-> l] :
        l \in UNION {[1..k -> BatchItems] : k \in 0..MaxItems}}

\* rows of a table
BlankRow == [kind |-> "blank"]
HeaderRow(name, indicators) == [kind |-> "header", name |-> name, indicators |-> indicators]
DataRow(label, values) == [kind |-> "data", label |-> label, values |-> values]
TableRows ==
    {BlankRow, [kind |-> "comment"], [kind |-> "other"],
     HeaderRow("Baseline", <<"A">>), HeaderRow("Intervention", <<"A", "B">>),
     DataRow("Mean", <<Num(100)>>), DataRow("Error_Bar", <<Num(20), None>>)}

\* tables handed to _parse_csv_structure
ParseInputs ==
    {[fn |-> "parse_csv", rows |-> l] :
        l \in UNION {[1..k -> TableRows] : k \in 0..MaxRows}}

\* records handed to validate_conversion_result
ValidateInputs ==
    [fn : {"validate_result"}, mean : {-10, 0, 10},
     sd : {RInt(k) : k \in (0 - MaxSd)..MaxSd}, se : {RInt(k) : k \in {-5, 0, 5, 10}},
     sample_size : {-1, 0, 1, 2, 4, 9, 10, 11}]

\* arguments of convert_to_mean_sd with an error bar of 2^43 or more
LargeInputs ==
    [fn : {"validate"}, mean : {0, 1},
     error_bar : {Big(c, j) : c \in {2, 3}, j \in 0..MaxOffset},
     error_type : {"SE", "ASYMMETRIC"},
     sample_size : {k * k : k \in 1..MaxRoot}]

\* arguments of _calculate_p_value: abs(t_stat) in twentieths (0, 0.05, ...,
\* the boundaries 1.5, 2, 3, 4 included) or a square root, and df
TStatValues ==
    {RTimes(RInt(k), 1, 20) : k \in 0..MaxT} \cup {RTimesSqrt(RInt(1), k) : k \in 2..17}
PValueInputs == [fn : {"p_value"}, t_stat : TStatValues, df : -1..MaxDf]

\* arguments of _interpret_comparison: the interval delta -+ margin of a
\* difference (tenths) and a margin >= 0 in halves of a tenth or a square root
MarginValues ==
    {RTimes(RInt(k), 1, 2) : k \in 0..(2 * MaxDelta)}
    \cup {RTimesSqrt(RInt(1), k) : k \in {2, 3, 5, 10, 17, 26, 37}}
InterpretInputs ==
    {[fn |-> "interpret", delta_mean |-> dm, ci_lower |-> Aff(dm, RNeg(m)),
      ci_upper |-> Aff(dm, m), margin |-> m, significant |-> sg] :
        dm \in (0 - MaxDelta)..MaxDelta, m \in MarginValues, sg \in BOOLEAN}

\* one indicator's column of the parsed table
Measurement(mean, error_bar, error_type, sample_size) ==
    [Mean |-> mean, Error_Bar |-> error_bar, Error_Type |-> error_type,
     Sample_Size |-> sample_size]
Measurements ==
    { \* sound: SD, plausible
      Measurement(Num(100), Num(20), SomeStr(<<"S", "D">>), Num(30)),
      \* incomplete: no mean
      Measurement(None, Num(20), SomeStr(<<"S", "D">>), Num(30)),
      \* "1.5/0.9" declared SE: an upper/lower text that is not averaged
      Measurement(Num(100), Str(15, 9), SomeStr(<<"S", "E">>), Num(30)),
      \* "1.5/0.9" declared ASYMMETRIC: averaged to 1.2
      Measurement(Num(120), Str(15, 9),
                  SomeStr(<<"A", "S", "Y", "M", "M", "E", "T", "R", "I", "C">>),
                  Num(25)),
      \* sample size 0
      Measurement(Num(100), Num(20), SomeStr(<<"S", "E">>), Num(0)),
      \* unrecognized label and a negative error bar: the type stays UNKNOWN
      Measurement(Num(100), Num(-10), SomeStr(<<"F", "O", "O">>), Num(10)),
      \* negative error bar under a recognized label
      Measurement(Num(100), Num(-10), SomeStr(<<"S", "D">>), Num(10)) }
PipelineLevels == {9000, 9500}

(***************************************************************************)
(* State machine.  Each entry point is applied to inputs drawn by its      *)
(* initial condition; pc tells which entry point a behaviour exercises.    *)
(***************************************************************************)
DetIdle == [mean |-> None, error_bar |-> None, declared_type |-> NoStr,
            sample_size |-> None]
DetNotCalled == [called |-> FALSE, type |-> "", confidence |-> 0, raised |-> NoExc]
ConvIdle == [mean |-> 0, error_bar |-> 0, error_type |-> "", sample_size |-> 0]
ConvNotCalled == [called |-> FALSE, result |-> ConvFailure(NoExc, "")]
CmpRecordIdle == [mean |-> 0, sd |-> RZero, sample_size |-> 0]
CmpIdle == [g1 |-> CmpRecordIdle, g2 |-> CmpRecordIdle, confidence_level |-> 0]
CmpNotCalled == [called |-> FALSE, result |-> CmpFailure(NoExc)]
NoGroups == [g \in GroupNames |-> <<>>]
NoComparisons == [comparisons |-> <<>>, confidence_level |-> 0,
                  total_comparisons |-> 0, significant_comparisons |-> 0]
FnIdle == [fn |-> ""]
FnNotCalled == [called |-> FALSE]

InitCommon(entry) ==
    /\ pc = entry
    /\ raised = NoExc
    /\ detOut = DetNotCalled
    /\ convOut = ConvNotCalled
    /\ cmpOut = CmpNotCalled
    /\ analysis = NoGroups
    /\ results = NoGroups
    /\ comparisons = NoComparisons
    /\ fnOut = FnNotCalled

InitDetect ==
    /\ InitCommon("detect")
    /\ detIn \in DetectInputs
    /\ convIn = ConvIdle /\ cmpIn = CmpIdle /\ groups = NoGroups
    /\ fnIn = FnIdle

InitConvert ==
    /\ InitCommon("convert")
    /\ convIn \in ConvertInputs
    /\ detIn = DetIdle /\ cmpIn = CmpIdle /\ groups = NoGroups
    /\ fnIn = FnIdle

InitCompare ==
    /\ InitCommon("compare")
    /\ cmpIn \in CompareInputs
    /\ detIn = DetIdle /\ convIn = ConvIdle /\ groups = NoGroups
    /\ fnIn = FnIdle

InitPValue ==
    /\ InitCommon("p_value")
    /\ fnIn \in PValueInputs
    /\ detIn = DetIdle /\ convIn = ConvIdle /\ cmpIn = CmpIdle /\ groups = NoGroups

InitRounded ==
    /\ InitCommon("rounded")
    /\ fnIn \in FineInputs
    /\ detIn = DetIdle /\ convIn = ConvIdle /\ cmpIn = CmpIdle /\ groups = NoGroups

InitLarge ==
    /\ InitCommon("large")
    /\ fnIn \in LargeInputs
    /\ detIn = DetIdle /\ convIn = ConvIdle /\ cmpIn = CmpIdle /\ groups = NoGroups

InitValidate ==
    /\ InitCommon("validate_result")
    /\ fnIn \in ValidateInputs
    /\ detIn = DetIdle /\ convIn = ConvIdle /\ cmpIn = CmpIdle /\ groups = NoGroups

InitInputCheck ==
    /\ InitCommon("validate_input")
    /\ fnIn \in InputCheckInputs
    /\ detIn = DetIdle /\ convIn = ConvIdle /\ cmpIn = CmpIdle /\ groups = NoGroups

InitBatch ==
    /\ InitCommon("batch_convert")
    /\ fnIn \in BatchInputs
    /\ detIn = DetIdle /\ convIn = ConvIdle /\ cmpIn = CmpIdle /\ groups = NoGroups

InitParse ==
    /\ InitCommon("parse_csv")
    /\ fnIn \in ParseInputs
    /\ detIn = DetIdle /\ convIn = ConvIdle /\ cmpIn = CmpIdle /\ groups = NoGroups

InitInterpret ==
    /\ InitCommon("interpret")
    /\ fnIn \in InterpretInputs
    /\ detIn = DetIdle /\ convIn = ConvIdle /\ cmpIn = CmpIdle /\ groups = NoGroups

Init ==
    /\ InitCommon("start")
    /\ groups \in [GroupNames -> [1..NumIndicators -> Measurements]]
    /\ detIn = DetIdle /\ convIn = ConvIdle /\ cmpIn = CmpIdle
    /\ fnIn = FnIdle

\* a call of ErrorBarDetector.detect_error_type
DetectCall ==
    /\ pc = "detect" /\ ~detOut.called
    /\ LET r == DetectErrorType(detIn.mean, detIn.error_bar, detIn.declared_type,
                                detIn.sample_size)
       IN  detOut' = [called |-> TRUE, type |-> r.type, confidence |-> r.confidence,
                      raised |-> r.raised]
    /\ UNCHANGED <<fnIn, fnOut, detIn, convIn, convOut, cmpIn, cmpOut, groups, analysis, results,
                   comparisons, pc, raised>>

\* a call of StatisticalEngine.convert_to_mean_sd
ConvertCall ==
    /\ pc = "convert" /\ ~convOut.called
    /\ convOut' = [called |-> TRUE,
                   result |-> ConvertToMeanSd(convIn.mean, convIn.error_bar,
                                              convIn.error_type, convIn.sample_size)]
    /\ UNCHANGED <<fnIn, fnOut, detIn, detOut, convIn, cmpIn, cmpOut, groups, analysis, results,
                   comparisons, pc, raised>>

\* a call of BarChartConverter._calculate_group_comparison
CompareCall ==
    /\ pc = "compare" /\ ~cmpOut.called
    /\ cmpOut' = [called |-> TRUE,
                  result |-> CalculateGroupComparison(cmpIn.g1, cmpIn.g2,
                                                      cmpIn.confidence_level)]
    /\ UNCHANGED <<fnIn, fnOut, detIn, detOut, convIn, convOut, cmpIn, groups, analysis, results,
                   comparisons, pc, raised>>

\* a call of BarChartConverter._calculate_p_value
PValueCall ==
    /\ pc = "p_value" /\ ~fnOut.called
    /\ fnOut' = [called |-> TRUE, value |-> CalculatePValue(fnIn.t_stat, fnIn.df)]
    /\ UNCHANGED <<fnIn, detIn, detOut, convIn, convOut, cmpIn, cmpOut, groups,
                   analysis, results, comparisons, pc, raised>>

\* a call of convert_to_mean_sd on fine values
ConvertRoundedCall ==
    /\ pc = "rounded" /\ ~fnOut.called
    /\ \E r \in ConvertToMeanSdRounded(fnIn.mean, fnIn.error_bar, fnIn.error_type,
                                        fnIn.sample_size) :
          fnOut' = [called |-> TRUE, result |-> r, back_called |-> FALSE]
    /\ UNCHANGED <<fnIn, detIn, detOut, convIn, convOut, cmpIn, cmpOut, groups,
                   analysis, results, comparisons, pc, raised>>

\* the returned sd converted back: convert_to_mean_sd(mean, r.sd, 'SD', n)
ConvertBackCall ==
    /\ pc = "rounded" /\ fnOut.called /\ ~fnOut.back_called
    /\ fnOut.result.raised = NoExc
    /\ \E b \in ConvertToMeanSdRounded(fnIn.mean, fnOut.result.sd, "SD",
                                        fnIn.sample_size) :
          fnOut' = [called |-> TRUE, result |-> fnOut.result,
                    back_called |-> TRUE, back |-> b]
    /\ UNCHANGED <<fnIn, detIn, detOut, convIn, convOut, cmpIn, cmpOut, groups,
                   analysis, results, comparisons, pc, raised>>

\* a call of convert_to_mean_sd on a large error bar
ConvertLargeCall ==
    /\ pc = "large" /\ ~fnOut.called
    /\ fnOut' = [called |-> TRUE, validated |-> FALSE,
                 result |-> ConvertFromSeLarge(fnIn.mean, fnIn.error_bar,
                                               fnIn.error_type, fnIn.sample_size)]
    /\ UNCHANGED <<fnIn, detIn, detOut, convIn, convOut, cmpIn, cmpOut, groups,
                   analysis, results, comparisons, pc, raised>>

\* validate_conversion_result on the returned record
ValidateLargeCall ==
    /\ pc = "large" /\ fnOut.called /\ ~fnOut.validated
    /\ fnOut' = [called |-> TRUE, validated |-> TRUE, result |-> fnOut.result,
                 validation |-> ValidateLarge(fnOut.result)]
    /\ UNCHANGED <<fnIn, detIn, detOut, convIn, convOut, cmpIn, cmpOut, groups,
                   analysis, results, comparisons, pc, raised>>

\* a call of StatisticalEngine.validate_conversion_result
ValidateCall ==
    /\ pc = "validate_result" /\ ~fnOut.called
    /\ fnOut' = [called |-> TRUE, validation |-> ValidateConversionResult(fnIn)]
    /\ UNCHANGED <<fnIn, detIn, detOut, convIn, convOut, cmpIn, cmpOut, groups,
                   analysis, results, comparisons, pc, raised>>

\* batch_convert is entered: results and summary are created
BatchEnter ==
    /\ pc = "batch_convert"
    /\ fnOut' = BatchStart
    /\ pc' = "batch_loop"
    /\ UNCHANGED <<fnIn, detIn, detOut, convIn, convOut, cmpIn, cmpOut, groups,
                   analysis, results, comparisons, raised>>

\* one iteration of the loop over data_list
BatchItem ==
    /\ pc = "batch_loop" /\ fnOut.i < Len(fnIn.data_list)
    /\ fnOut' = ProcessItem(fnOut, fnIn.data_list[fnOut.i + 1])
    /\ UNCHANGED <<fnIn, detIn, detOut, convIn, convOut, cmpIn, cmpOut, groups,
                   analysis, results, comparisons, pc, raised>>

\* the loop is over: {'results': results, 'summary': summary} is returned
BatchReturn ==
    /\ pc = "batch_loop" /\ fnOut.i = Len(fnIn.data_list)
    /\ fnOut' = [fnOut EXCEPT !.called = TRUE]
    /\ pc' = "batch_done"
    /\ UNCHANGED <<fnIn, detIn, detOut, convIn, convOut, cmpIn, cmpOut, groups,
                   analysis, results, comparisons, raised>>

\* _parse_csv_structure is entered
ParseEnter ==
    /\ pc = "parse_csv"
    /\ fnOut' = ParseStart
    /\ pc' = "parse_loop"
    /\ UNCHANGED <<fnIn, detIn, detOut, convIn, convOut, cmpIn, cmpOut, groups,
                   analysis, results, comparisons, raised>>

\* one iteration of the loop over rows; a KeyError leaves the method
ParseNextRow ==
    /\ pc = "parse_loop" /\ fnOut.i < Len(fnIn.rows)
    /\ fnOut' = ParseRow(fnOut, fnIn.rows[fnOut.i + 1])
    /\ pc' = IF fnOut'.raised # NoExc THEN "parse_raised" ELSE pc
    /\ raised' = fnOut'.raised
    /\ UNCHANGED <<fnIn, detIn, detOut, convIn, convOut, cmpIn, cmpOut, groups,
                   analysis, results, comparisons>>

\* lines 147-151: the last group is stored and groups is returned
ParseReturn ==
    /\ pc = "parse_loop" /\ fnOut.i = Len(fnIn.rows)
    /\ fnOut' = [fnOut EXCEPT !.groups = StoreCurrent(fnOut), !.called = TRUE]
    /\ pc' = "parse_done"
    /\ UNCHANGED <<fnIn, detIn, detOut, convIn, convOut, cmpIn, cmpOut, groups,
                   analysis, results, comparisons, raised>>

\* a call of ErrorBarDetector.validate_conversion_input
InputCheckCall ==
    /\ pc = "validate_input" /\ ~fnOut.called
    /\ fnOut' = [called |-> TRUE,
                 result |-> ValidateConversionInput(fnIn.mean, fnIn.error_bar,
                                                    fnIn.error_type, fnIn.sample_size)]
    /\ UNCHANGED <<fnIn, detIn, detOut, convIn, convOut, cmpIn, cmpOut, groups,
                   analysis, results, comparisons, pc, raised>>

\* a call of BarChartConverter._interpret_comparison
InterpretCall ==
    /\ pc = "interpret" /\ ~fnOut.called
    /\ fnOut' = [called |-> TRUE,
                 value |-> InterpretComparison(fnIn.delta_mean, fnIn.ci_lower,
                                               fnIn.ci_upper, fnIn.significant)]
    /\ UNCHANGED <<fnIn, detIn, detOut, convIn, convOut, cmpIn, cmpOut, groups,
                   analysis, results, comparisons, pc, raised>>

\* BarChartConverter.convert_bar_data on the parsed groups: analyze_error_types,
\* then the conversion loop.  An exception of analyze_error_types leaves the call.
ConvertBarData ==
    /\ pc = "start"
    /\ \E a \in {[g \in GroupNames |-> AnalyzeGroup(groups[g])]} :
         \E exc \in {FirstRaised(a["Baseline"] \o a["Intervention"])} :
           IF exc # NoExc
           THEN /\ pc' = "convert_failed"
                /\ raised' = exc
                /\ UNCHANGED <<analysis, results>>
           ELSE /\ pc' = "converted"
                /\ analysis' = a
                /\ results' = [g \in GroupNames |-> ConvertGroup(a[g])]
                /\ UNCHANGED raised
    /\ UNCHANGED <<fnIn, fnOut, detIn, detOut, convIn, convOut, cmpIn, cmpOut, groups, comparisons>>

RECURSIVE CountSignificant(_)
CountSignificant(cs) ==
    Val({IF x = <<>> THEN 0
         ELSE (IF Head(x).stats.significant THEN 1 ELSE 0) + CountSignificant(Tail(x))
         : x \in {cs}})

\* BarChartConverter.perform_group_comparisons on the result of convert_bar_data
PerformGroupComparisons ==
    /\ pc = "converted"
    /\ \E level \in PipelineLevels :
         \E cs \in {PairComparisons(results["Baseline"], results["Intervention"],
                                    level, 1)} :
           \E exc \in {FirstStatsRaised(cs)} :
             IF exc # NoExc
             THEN /\ pc' = "compare_failed"
                  /\ raised' = exc
                  /\ UNCHANGED comparisons
             ELSE /\ pc' = "compared"
                  /\ comparisons' = [comparisons |-> cs, confidence_level |-> level,
                                     total_comparisons |-> Len(cs),
                                     significant_comparisons |-> CountSignificant(cs)]
                  /\ UNCHANGED raised
    /\ UNCHANGED <<fnIn, fnOut, detIn, detOut, convIn, convOut, cmpIn, cmpOut, groups, analysis,
                   results>>

NextDetect == DetectCall
NextConvert == ConvertCall
NextCompare == CompareCall
NextPValue == PValueCall
NextInterpret == InterpretCall
NextRounded == ConvertRoundedCall \/ ConvertBackCall
NextLarge == ConvertLargeCall \/ ValidateLargeCall
NextValidate == ValidateCall
NextInputCheck == InputCheckCall
NextBatch == BatchEnter \/ BatchItem \/ BatchReturn
NextParse == ParseEnter \/ ParseNextRow \/ ParseReturn
Next == ConvertBarData \/ PerformGroupComparisons

SpecDetect == InitDetect /\ [][NextDetect]_vars
SpecConvert == InitConvert /\ [][NextConvert]_vars
SpecCompare == InitCompare /\ [][NextCompare]_vars
SpecPValue == InitPValue /\ [][NextPValue]_vars
SpecInterpret == InitInterpret /\ [][NextInterpret]_vars
SpecRounded == InitRounded /\ [][NextRounded]_vars
SpecLarge == InitLarge /\ [][NextLarge]_vars
SpecValidate == InitValidate /\ [][NextValidate]_vars
SpecInputCheck == InitInputCheck /\ [][NextInputCheck]_vars
SpecBatch == InitBatch /\ [][NextBatch]_vars
SpecParse == InitParse /\ [][NextParse]_vars
Spec == Init /\ [][Next]_vars

(***************************************************************************)
(* Properties of _calculate_group_comparison (SpecCompare).                *)
(***************************************************************************)
\* C1: _calculate_group_comparison never raises for two records whose sample
\* sizes are positive, a.n = b.n = 1 included; the degenerate cases give the
\* fallback values: p_value = 1.0 when df <= 0, t_statistic = 0 when
\* sd_diff = 0 and cohens_d = 0 when pooled_sd = 0.
C1_CompareNeverRaises ==
    (cmpOut.called /\ cmpIn.g1.sample_size > 0 /\ cmpIn.g2.sample_size > 0)
    => /\ cmpOut.result.raised = NoExc
       /\ (cmpIn.g1.sample_size + cmpIn.g2.sample_size - 2 <= 0
           => cmpOut.result.p_value = 10000)
       /\ (cmpIn.g1.sd.s = 0 /\ cmpIn.g2.sd.s = 0
           => /\ cmpOut.result.cohens_d = RZero
              /\ cmpOut.result.t_statistic = RZero)

\* the call returned: both sample sizes positive and their sum above 2
CmpReturned == cmpOut.called /\ cmpOut.result.raised = NoExc

\* the z the comparison must use at a confidence level (ticks of 0.0001)
ExpectedZ(level) ==
    IF level = 9000 THEN <<329, 200>>
    ELSE IF level = 9500 THEN <<49, 25>>
    ELSE IF level = 9900 THEN <<322, 125>>
    ELSE <<49, 25>>

C17_SignificantStrict ==
    CmpReturned
    => /\ cmpOut.result.significant
          <=> cmpOut.result.p_value < 10000 - cmpIn.confidence_level
       /\ (/\ cmpIn.g1 = [mean |-> 120, sd |-> RInt(20), sample_size |-> 20]
           /\ cmpIn.g2 = [mean |-> 100, sd |-> RInt(22), sample_size |-> 20]
           /\ cmpIn.confidence_level = 9500)
          => /\ cmpOut.result.delta_mean = 20
             /\ RLt(RInt(3), RAbs(cmpOut.result.t_statistic))
             /\ cmpOut.result.p_value = 100
             /\ cmpOut.result.significant

\* the |t| the claim has significance require at a level
StatedThreshold(level) ==
    IF level = 9000 THEN 2 ELSE IF level = 9500 THEN 3 ELSE 4

\* the |t| significance requires in the code at a level: the double
\* 1 - 0.95 exceeds 0.05 and the double 1 - 0.99 exceeds 0.01 (see C17)
CodeThreshold(level) ==
    IF level = 9000 THEN 2 ELSE IF level = 9500 THEN 2 ELSE 3

\* C28: at the levels 0.90, 0.95 and 0.99 a significant comparison has |t|
\* above 2, 3 and 4 respectively, each larger than the z of the interval, so
\* its interval never contains 0 and the label "significant, CI spans 0" is
\* not returned at these levels.
C28_SignificantExcludesZero ==
    (CmpReturned /\ cmpIn.confidence_level \in {9000, 9500, 9900})
    => /\ cmpOut.result.interpretation # "significant, CI spans 0"
       /\ cmpOut.result.significant
          => /\ RLt(RInt(StatedThreshold(cmpIn.confidence_level)),
                    RAbs(cmpOut.result.t_statistic))
             /\ \/ AffPositive(cmpOut.result.ci_lower)
                \/ AffNegative(cmpOut.result.ci_upper)

\* what the code keeps of C28: the label is not returned at the three levels,
\* a significant comparison there having |t| above 2, 2 and 3
C28_LabelUnreachableAtTableLevels ==
    (CmpReturned /\ cmpIn.confidence_level \in {9000, 9500, 9900})
    => /\ cmpOut.result.interpretation # "significant, CI spans 0"
       /\ cmpOut.result.significant
          <=> RLt(RInt(CodeThreshold(cmpIn.confidence_level)),
                  RAbs(cmpOut.result.t_statistic))
       /\ cmpOut.result.significant
          => \/ AffPositive(cmpOut.result.ci_lower)
             \/ AffNegative(cmpOut.result.ci_upper)

\* the label is returned at level 0.80 with 1.5 < |t| <= 1.96
C28_LabelReachedAtPoint8 ==
    /\ CmpReturned /\ cmpIn.confidence_level = 8000
    /\ cmpOut.result.significant
    /\ cmpOut.result.interpretation = "significant, CI spans 0"
    /\ RLt(RTimes(RInt(3), 1, 2), RAbs(cmpOut.result.t_statistic))
    /\ RLe(RAbs(cmpOut.result.t_statistic), RTimes(RInt(49), 1, 25))

\* C19: swapping the two records negates delta_mean, cohens_d, hedges_g and
\* t_statistic and maps the interval [l, u] to [-u, -l]; sd_diff, p_value,
\* significant and degrees_of_freedom are unchanged (positive sample sizes,
\* a.n + b.n > 2).
C19_SwapAntisymmetry ==
    CmpReturned
    => \E r \in {cmpOut.result},
          sw \in {CalculateGroupComparison(cmpIn.g2, cmpIn.g1,
                                           cmpIn.confidence_level)} :
         /\ sw.raised = NoExc
         /\ sw.delta_mean = 0 - r.delta_mean
         /\ REq(sw.cohens_d, RNeg(r.cohens_d))
         /\ REq(sw.hedges_g, RNeg(r.hedges_g))
         /\ REq(sw.t_statistic, RNeg(r.t_statistic))
         /\ sw.ci_lower.base = 0 - r.ci_upper.base
         /\ REq(sw.ci_lower.off, RNeg(r.ci_upper.off))
         /\ sw.ci_upper.base = 0 - r.ci_lower.base
         /\ REq(sw.ci_upper.off, RNeg(r.ci_lower.off))
         /\ REq(sw.sd_diff, r.sd_diff)
         /\ sw.p_value = r.p_value
         /\ sw.significant = r.significant
         /\ sw.degrees_of_freedom = r.degrees_of_freedom

\* C19 witness: unequal records with a positive, significant difference
C19_Witness ==
    /\ CmpReturned
    /\ cmpIn.g1.sample_size = 3 /\ cmpIn.g2.sample_size = 20
    /\ cmpIn.g1.sd = RInt(20) /\ cmpIn.g2.sd = RInt(22)
    /\ cmpOut.result.delta_mean = 20
    /\ cmpOut.result.cohens_d.s = 1 /\ cmpOut.result.t_statistic.s = 1
    /\ CalculateGroupComparison(cmpIn.g2, cmpIn.g1,
                                cmpIn.confidence_level).t_statistic.s = -1

\* C20: with a.sd = 0 and b.sd = 0 (a.n + b.n > 2) the result has sd_diff = 0,
\* t_statistic = 0, cohens_d = 0, p_value = 1.0 and significant = False at
\* every confidence level, whatever the two means are.
C20_ZeroVariance ==
    (CmpReturned /\ cmpIn.g1.sd.s = 0 /\ cmpIn.g2.sd.s = 0)
    => /\ cmpOut.result.sd_diff.s = 0
       /\ cmpOut.result.t_statistic.s = 0
       /\ cmpOut.result.cohens_d.s = 0
       /\ cmpOut.result.p_value = 10000
       /\ ~cmpOut.result.significant

\* C20 witness: zero variances, different means, the lowest level (0.0001)
C20_Witness ==
    /\ CmpReturned /\ cmpIn.g1.sd.s = 0 /\ cmpIn.g2.sd.s = 0
    /\ cmpIn.g1.mean = 120 /\ cmpIn.g2.mean = 100
    /\ cmpIn.confidence_level = 1
    /\ cmpOut.result.delta_mean = 20
    /\ cmpOut.result.p_value = 10000 /\ ~cmpOut.result.significant

(***************************************************************************)
(* Properties of convert_to_mean_sd on fine values (SpecRounded).  Values  *)
(* are in units of 0.0000001; 10 units are one unit of the sixth decimal.  *)
(***************************************************************************)
FineReturned == fnOut.called /\ fnOut.result.raised = NoExc
FineBack == FineReturned /\ fnOut.back_called /\ fnOut.back.raised = NoExc

\* v is the real x rounded to 6 decimals
IsRound6(v, x) == v % 10 = 0 /\ RLe(RInt(v - 5), x) /\ RLe(x, RInt(v + 5))

\* the record holds se = eb * p / q and sd = se * sqrt(n), each rounded
TableRow(p, q, quality) ==
    /\ IsRound6(fnOut.result.se, RTimes(RInt(fnIn.error_bar), p, q))
    /\ IsRound6(fnOut.result.sd,
                RTimesSqrt(RTimes(RInt(fnIn.error_bar), p, q), fnIn.sample_size))
    /\ fnOut.result.quality_score = quality

\* the formula table of the six types, outputs rounded to 6 decimals
FormulaTable ==
    CASE fnIn.error_type = "SD" ->
           /\ IsRound6(fnOut.result.sd, RInt(fnIn.error_bar))
           /\ IsRound6(fnOut.result.se,
                       RDivSqrt(RInt(fnIn.error_bar), fnIn.sample_size))
           /\ fnOut.result.quality_score = 10000
      [] fnIn.error_type = "SE" -> TableRow(1, 1, 9500)
      [] fnIn.error_type = "CI95" -> TableRow(25, 49, 8500)      \* 1 / 1.96
      [] fnIn.error_type = "CI99" -> TableRow(125, 322, 8500)    \* 1 / 2.576
      [] fnIn.error_type = "2SE" -> TableRow(1, 2, 9000)
      [] fnIn.error_type = "ASYMMETRIC" -> TableRow(1, 1, 7500)

\* C11 as stated: for n > 0 the record follows the formula table (outputs
\* rounded to 6 decimals), and convert(mean, sd, 'SD', n).sd == sd.
C11_TableAndExactIdentity ==
    (FineReturned /\ fnIn.sample_size > 0)
    => /\ FormulaTable
       /\ fnIn.error_type = "SD" => fnOut.result.sd = fnIn.error_bar

\* C11 amended: for n > 0 the record follows the formula table (outputs
\* rounded to 6 decimals), and convert(mean, sd, 'SD', n).sd == round(sd, 6),
\* which is sd itself when sd has at most 6 decimals.
C11_TableAndRoundedIdentity ==
    (FineReturned /\ fnIn.sample_size > 0)
    => /\ FormulaTable
       /\ fnIn.error_type = "SD"
          => /\ IsRound6(fnOut.result.sd, RInt(fnIn.error_bar))
             /\ fnIn.error_bar % 10 = 0 => fnOut.result.sd = fnIn.error_bar

\* C11 witness: a CI99 half-width of 0.0000033 with n = 3 gives se 0.000001
\* (1.28 rounded) and sd 0.000002 (2.22 rounded)
C11_Witness ==
    /\ FineReturned
    /\ fnIn.error_type = "CI99" /\ fnIn.error_bar = 33 /\ fnIn.sample_size = 3
    /\ fnOut.result.se = 10 /\ fnOut.result.sd = 20
    /\ fnOut.result.quality_score = 8500

\* C13 as stated: for se > 0 and n > 0, r = convert(mean, se, 'SE', n) has
\* r.se == se and r.sd == se * sqrt(n), and convert(mean, r.sd, 'SD', n) has
\* se equal to se within tolerance (one unit of the sixth decimal) and sd
\* equal to r.sd.
C13_RoundTripExact ==
    (FineReturned /\ fnIn.error_type = "SE" /\ fnIn.error_bar > 0
     /\ fnIn.sample_size > 0)
    => /\ fnOut.result.se = fnIn.error_bar
       /\ REq(RInt(fnOut.result.sd),
              RTimesSqrt(RInt(fnIn.error_bar), fnIn.sample_size))
       /\ fnOut.back_called
          => /\ fnOut.back.raised = NoExc
             /\ fnOut.back.sd = fnOut.result.sd
             /\ fnOut.back.se - fnIn.error_bar \in -10..10

\* C13 amended: r.se == round(se, 6) and r.sd == round(se * sqrt(n), 6), and
\* convert(mean, r.sd, 'SD', n) has sd equal to r.sd and se within 0.000001
\* of se.
C13_RoundTripRounded ==
    (FineReturned /\ fnIn.error_type = "SE" /\ fnIn.error_bar > 0
     /\ fnIn.sample_size > 0)
    => /\ IsRound6(fnOut.result.se, RInt(fnIn.error_bar))
       /\ IsRound6(fnOut.result.sd,
                   RTimesSqrt(RInt(fnIn.error_bar), fnIn.sample_size))
       /\ fnOut.back_called
          => /\ fnOut.back.raised = NoExc
             /\ fnOut.back.sd = fnOut.result.sd
             /\ fnOut.back.se - fnIn.error_bar \in -10..10

\* C13 witness: se 0.0000037 with n = 3 gives r.se 0.000004 and r.sd 0.000006,
\* and the SD path gives back sd 0.000006 and se 0.000003
C13_Witness ==
    /\ FineBack
    /\ fnIn.error_type = "SE" /\ fnIn.error_bar = 37 /\ fnIn.sample_size = 3
    /\ fnOut.result.se = 40 /\ fnOut.result.sd = 60
    /\ fnOut.back.sd = 60 /\ fnOut.back.se = 30

(***************************************************************************)
(* Properties of validate_conversion_result on convert's output (SpecLarge)*)
(***************************************************************************)
\* C12: for every supported type (ASYMMETRIC included), error_bar > 0 and
\* sample_size > 0, the returned record has se = sd / sqrt(sample_size) within
\* 0.001, so validate_conversion_result never emits the SE/SD-inconsistency
\* warning for a convert output.
C12_NoInconsistencyWarning ==
    (fnOut.called /\ fnOut.validated)
    => \A i \in 1..Len(fnOut.validation.warnings) :
          fnOut.validation.warnings[i] # "se_sd_inconsistent"

(***************************************************************************)
(* Properties of validate_conversion_result (SpecValidate).                *)
(***************************************************************************)
\* abs(sd / mean) > k for a record with mean != 0, by squares
CvAbove(k) ==
    fnIn.mean # 0 /\ fnIn.sd.n > k * k * fnIn.mean * fnIn.mean * fnIn.sd.d

\* C21: the quality tier depends on CV = |sd / mean| and n only: 'poor' when
\* CV > 2.0; 'fair' when 1.0 < CV <= 2.0, or when CV <= 1.0 (or mean = 0) and
\* n < 10; 'good' otherwise.  A small sample never improves a tier, sd <= 0,
\* se <= 0 and the SE/SD inconsistency do not change it, and the call never
\* raises.
C21_QualityTier ==
    fnOut.called
    => /\ fnOut.validation.raised = NoExc
       /\ fnOut.validation.quality_assessment =
             (IF CvAbove(2) THEN "poor"
              ELSE IF CvAbove(1) THEN "fair"
              ELSE IF fnIn.sample_size < 10 THEN "fair"
              ELSE "good")
       /\ fnOut.validation.is_valid <=> (fnIn.sd.s > 0 /\ fnIn.se.s > 0)

\* C21 witness: CV = 2.5 with n = 4, a non-positive se and inconsistent se and
\* sd: the tier is 'poor' and the record invalid
C21_Witness ==
    /\ fnOut.called
    /\ fnIn.mean = -10 /\ fnIn.sd = RInt(25) /\ fnIn.se = RInt(-5)
    /\ fnIn.sample_size = 4
    /\ fnOut.validation.quality_assessment = "poor"
    /\ ~fnOut.validation.is_valid
    /\ fnOut.validation.warnings
         = <<"se_not_positive", "se_sd_inconsistent", "cv_very_large", "small_sample">>

(***************************************************************************)
(* Properties of validate_conversion_input (SpecInputCheck).               *)
(***************************************************************************)
\* |mean| in units of 0.00000000001 (a tenth is 10^10 units; the explored
\* means are at most one in magnitude)
MeanMagnitude ==
    IF fnIn.mean.tenths < 0 \/ (fnIn.mean.tenths = 0 /\ fnIn.mean.tiny < 0)
    THEN [tenths |-> 0 - fnIn.mean.tenths, tiny |-> 0 - fnIn.mean.tiny]
    ELSE fnIn.mean

\* the first condition of the claim's list that holds, in its order
FirstFailing ==
    IF fnIn.sample_size <= 0 THEN "sample_size"
    ELSE IF fnIn.error_bar <= 0 THEN "error_bar"
    ELSE IF fnIn.error_type \notin {"SE", "SD", "CI95", "CI99", "2SE", "ASYMMETRIC",
                                    "SEM", "STD", "STDERR", "UNKNOWN"}
    THEN "unsupported_type"
    ELSE IF MeanMagnitude.tenths = 0 /\ MeanMagnitude.tiny < 10 /\ fnIn.error_bar > 10
    THEN "near_zero_mean"
    ELSE IF \/ fnIn.error_bar > 5 * MeanMagnitude.tenths
            \/ fnIn.error_bar = 5 * MeanMagnitude.tenths /\ MeanMagnitude.tiny < 0
    THEN "error_bar_too_large"
    ELSE "ok"

\* C22: validate_conversion_input returns (False, reason) exactly when
\* sample_size <= 0, or error_bar <= 0, or the type is neither supported nor
\* UNKNOWN, or (|mean| < 1e-10 and error_bar > 1), or error_bar > 5 * |mean|,
\* and (True, ...) otherwise; it never raises, reports the first failing
\* condition in that order, and so rejects every measurement whose mean is 0.
C22_InputValidation ==
    fnOut.called
    => /\ fnOut.result.raised = NoExc
       /\ fnOut.result.reason = FirstFailing
       /\ fnOut.result.ok <=> FirstFailing = "ok"
       /\ (fnIn.mean.tenths = 0 /\ fnIn.mean.tiny = 0) => ~fnOut.result.ok

\* C22 witness: mean 0 with a small positive error bar is rejected by the
\* last test
C22_Witness ==
    /\ fnOut.called
    /\ fnIn.mean = [tenths |-> 0, tiny |-> 0] /\ fnIn.error_bar = 1
    /\ fnIn.error_type = "SE" /\ fnIn.sample_size = 30
    /\ fnOut.result = [ok |-> FALSE, reason |-> "error_bar_too_large", raised |-> NoExc]

(***************************************************************************)
(* Properties of _calculate_p_value (SpecPValue).                          *)
(***************************************************************************)
\* the bucket of |t| = sqrt(n/d), by comparing squares
ExpectedBucket(t) ==
    IF t.s = 0 THEN 10000
    ELSE IF t.n > 16 * t.d THEN 1
    ELSE IF t.n > 9 * t.d THEN 100
    ELSE IF t.n > 4 * t.d THEN 500
    ELSE IF 4 * t.n > 9 * t.d THEN 1000
    ELSE 2000

\* C16: for df > 0 the p-value is the step function of |t| with strict
\* boundaries: 0 -> 1.0; > 4 -> 0.0001; (3, 4] -> 0.01; (2, 3] -> 0.05;
\* (1.5, 2] -> 0.1; (0, 1.5] -> 0.2.  It takes no other value, does not
\* depend on df when df > 0, and is non-increasing in |t|.
C16_PValueBuckets ==
    (fnOut.called /\ fnIn.fn = "p_value" /\ fnIn.df > 0)
    => /\ fnOut.value = ExpectedBucket(fnIn.t_stat)
       /\ fnOut.value \in {10000, 1, 100, 500, 1000, 2000}
       /\ \A df2 \in 1..MaxDf : CalculatePValue(fnIn.t_stat, df2) = fnOut.value
       /\ \A t2 \in TStatValues :
            RLe(fnIn.t_stat, t2) => CalculatePValue(t2, fnIn.df) <= fnOut.value

\* C16 witness: |t| exactly 4 still falls in the bucket 0.01
C16_Witness ==
    /\ fnOut.called /\ fnIn.fn = "p_value" /\ fnIn.df = 2
    /\ REq(fnIn.t_stat, RInt(4))
    /\ fnOut.value = 100

(***************************************************************************)
(* Properties of batch_convert (SpecBatch).                                *)
(***************************************************************************)
\* the sum of the counts a dict holds
RECURSIVE SumCounts(_)
SumCounts(f) ==
    IF DOMAIN f = {} THEN 0
    ELSE Val({f[k] + SumCounts([t \in DOMAIN f \ {k} |-> f[t]])
              : k \in {CHOOSE x \in DOMAIN f : TRUE}})

\* the loop of batch_convert was entered
BatchRunning == pc \in {"batch_loop", "batch_done"}

\* an entry of results is a failure record
IsFailure(entry) == "conversion_failed" \in DOMAIN entry

\* entry is what batch_convert records for the item data, whatever the rest
\* of the list: a failure record holding the item, or the conversion record
\* of the item's numbers with its validation
EntryOf(entry, data) ==
    /\ entry = ProcessItem(BatchStart, data).results[1]
    /\ IF IsFailure(entry)
       THEN /\ entry.conversion_failed = TRUE /\ entry.input_data = data
            /\ \/ MissingKey(data) # ""
               \/ ConvertToMeanSd(data.mean, data.error_bar, data.error_type,
                                  data.sample_size).raised # NoExc
       ELSE /\ MissingKey(data) = ""
            /\ entry.mean = data.mean /\ entry.sample_size = data.sample_size
            /\ entry.original_error_type = data.error_type
            /\ entry.validation.quality_assessment \in {"good", "fair", "poor"}

\* C29: after each item of batch_convert and at its return, results holds one
\* entry per processed item in input order (a conversion record or a failure
\* record with conversion_failed = True), total_conversions =
\* successful_conversions + failed_conversions = number of processed items,
\* the conversion_types counts and the quality_distribution counts each sum
\* to successful_conversions, and an item's entry does not depend on the
\* other items.
C29_BatchAccounting ==
    BatchRunning
    => \E s \in {fnOut.summary} :
         /\ fnOut.i \in 0..Len(fnIn.data_list)
         /\ fnOut.called => fnOut.i = Len(fnIn.data_list)
         /\ Len(fnOut.results) = fnOut.i
         /\ \A j \in 1..fnOut.i : EntryOf(fnOut.results[j], fnIn.data_list[j])
         /\ s.total_conversions = s.successful_conversions + s.failed_conversions
         /\ s.total_conversions = fnOut.i
         /\ s.failed_conversions
            = Cardinality({j \in 1..fnOut.i : IsFailure(fnOut.results[j])})
         /\ SumCounts(s.conversion_types) = s.successful_conversions
         /\ SumCounts(s.quality_distribution) = s.successful_conversions
         /\ \A t \in DOMAIN s.conversion_types :
              s.conversion_types[t]
              = Cardinality({j \in 1..fnOut.i :
                               /\ ~IsFailure(fnOut.results[j])
                               /\ fnIn.data_list[j].error_type = t})

\* C29 witness: a returned batch whose first item fails (unsupported type) and
\* whose second converts, recorded in that order
C29_Witness ==
    /\ pc = "batch_done" /\ fnOut.called
    /\ Len(fnIn.data_list) = 2
    /\ IsFailure(fnOut.results[1]) /\ ~IsFailure(fnOut.results[2])
    /\ fnOut.results[1].input_data.error_type = "FOO"
    /\ fnOut.summary.total_conversions = 2
    /\ fnOut.summary.successful_conversions = 1
    /\ fnOut.summary.failed_conversions = 1
    /\ fnOut.summary.quality_distribution.poor = 1

(***************************************************************************)
(* Properties of _parse_csv_structure (SpecParse).                         *)
(***************************************************************************)
\* the loop of _parse_csv_structure was entered
ParseRunning == pc \in {"parse_loop", "parse_raised", "parse_done"}

\* the last group-header row before row j; 0 when there is none
LastHeaderBefore(j) ==
    IF \E h \in 1..(j - 1) : fnIn.rows[h].kind = "header"
    THEN CHOOSE h \in 1..(j - 1) :
           /\ fnIn.rows[h].kind = "header"
           /\ \A k \in (h + 1)..(j - 1) : fnIn.rows[k].kind # "header"
    ELSE 0

\* a blank row lies between rows h and j
BlankBetween(h, j) == \E b \in (h + 1)..(j - 1) : fnIn.rows[b].kind = "blank"

\* row j is a data row that follows a blank row of its group
FollowsBlank(j) ==
    /\ fnIn.rows[j].kind = "data"
    /\ LastHeaderBefore(j) > 0 /\ BlankBetween(LastHeaderBefore(j), j)

\* the data rows directly under header h among the first upto rows
DirectRows(h, upto) ==
    {j \in (h + 1)..upto : /\ fnIn.rows[j].kind = "data"
                           /\ LastHeaderBefore(j) = h /\ ~BlankBetween(h, j)}

\* the dict of the group of header h once the first upto rows are read: its
\* indicators and, per label, the values of the last row directly under it
GroupDict(h, upto) ==
    [indicators |-> fnIn.rows[h].indicators,
     indicator_count |-> Len(fnIn.rows[h].indicators),
     data |-> [l \in {fnIn.rows[j].label : j \in DirectRows(h, upto)} |->
                 fnIn.rows[CHOOSE j \in DirectRows(h, upto) :
                             /\ fnIn.rows[j].label = l
                             /\ \A k \in DirectRows(h, upto) :
                                  fnIn.rows[k].label = l => k <= j].values]]

\* C30: a blank row closes the current group and keeps its name as the
\* current group; a data row that follows a blank row before the next header
\* is neither attached to the closed group nor ignored: the parser raises
\* KeyError and returns no groups.  Data rows directly under a header are
\* stored in that group, and data rows before the first header are ignored.
C30_BlankRowClosesGroup ==
    ParseRunning
    => \E i \in {fnOut.i} : \E h \in {LastHeaderBefore(i + 1)} :
         /\ fnOut.raised = "KeyError" <=> (i >= 1 /\ FollowsBlank(i))
         /\ fnOut.raised \in {NoExc, "KeyError"}
         /\ fnOut.raised # NoExc => ~fnOut.called /\ pc = "parse_raised"
         /\ h = 0
            => /\ fnOut.current_group = "" /\ DOMAIN fnOut.current_data = {}
               /\ DOMAIN fnOut.groups = {}
         /\ (h > 0 /\ ~BlankBetween(h, i + 1))
            => /\ fnOut.current_group = fnIn.rows[h].name
               /\ fnOut.current_data = GroupDict(h, i)
         /\ (h > 0 /\ BlankBetween(h, i + 1))
            => /\ fnOut.current_group = fnIn.rows[h].name
               /\ DOMAIN fnOut.current_data = {}
               /\ fnOut.groups[fnIn.rows[h].name] = GroupDict(h, i)
         /\ fnOut.called
            => /\ i = Len(fnIn.rows)
               /\ DOMAIN fnOut.groups
                  = {fnIn.rows[k].name : k \in {k \in 1..i : fnIn.rows[k].kind = "header"}}
               /\ \A k \in 1..i :
                    (/\ fnIn.rows[k].kind = "header"
                     /\ \A m \in (k + 1)..i :
                          fnIn.rows[m].kind = "header"
                          => fnIn.rows[m].name # fnIn.rows[k].name)
                    => fnOut.groups[fnIn.rows[k].name] = GroupDict(k, i)

\* C30 witness: header, data row, blank row, data row: the fourth row raises
\* KeyError; the closed group holds the second row only
C30_Witness ==
    /\ pc = "parse_raised" /\ fnOut.raised = "KeyError" /\ fnOut.i = 4
    /\ fnIn.rows[1] = HeaderRow("Baseline", <<"A">>)
    /\ fnIn.rows[2] = DataRow("Mean", <<Num(100)>>)
    /\ fnIn.rows[3] = BlankRow
    /\ fnIn.rows[4] = DataRow("Error_Bar", <<Num(20), None>>)
    /\ fnOut.current_group = "Baseline"
    /\ DOMAIN fnOut.groups["Baseline"].data = {"Mean"}

(***************************************************************************)
(* Properties of _interpret_comparison (SpecInterpret).                    *)
(***************************************************************************)
\* ci_lower = delta - margin > 0 and ci_upper = delta + margin < 0, by squares
CiLowerPositive ==
    /\ fnIn.delta_mean > 0
    /\ fnIn.delta_mean * fnIn.delta_mean * fnIn.margin.d > fnIn.margin.n
CiUpperNegative ==
    /\ fnIn.delta_mean < 0
    /\ fnIn.delta_mean * fnIn.delta_mean * fnIn.margin.d > fnIn.margin.n

\* C18: the label is a total function of (significant, ci_lower, ci_upper):
\* "a > b" iff significant and ci_lower > 0; "a < b" iff significant and
\* ci_upper < 0; "CI spans 0" iff significant and ci_lower <= 0 <= ci_upper;
\* "not significant" iff not significant, whatever the interval.
C18_InterpretationLabel ==
    (fnOut.called /\ fnIn.fn = "interpret")
    => /\ fnOut.value \in {"significant, a > b", "significant, a < b",
                           "significant, CI spans 0", "not significant"}
       /\ fnOut.value = "significant, a > b"
          <=> (fnIn.significant /\ CiLowerPositive)
       /\ fnOut.value = "significant, a < b"
          <=> (fnIn.significant /\ CiUpperNegative)
       /\ fnOut.value = "significant, CI spans 0"
          <=> (fnIn.significant /\ ~CiLowerPositive /\ ~CiUpperNegative)
       /\ fnOut.value = "not significant" <=> ~fnIn.significant

\* C18 witness: a significant difference whose ci_lower is exactly 0
C18_Witness ==
    /\ fnOut.called /\ fnIn.fn = "interpret"
    /\ fnIn.significant
    /\ fnIn.delta_mean = 3 /\ REq(fnIn.margin, RInt(3))
    /\ fnOut.value = "significant, CI spans 0"

(***************************************************************************)
(* Properties of the pipeline (Spec).                                      *)
(***************************************************************************)
\* C2: every comparison of perform_group_comparisons pairs the Intervention
\* record and the Baseline record of the same indicator, also when an
\* indicator was skipped in one group only.
C2_SameIndicatorPaired ==
    pc = "compared"
    => \A k \in 1..Len(comparisons.comparisons) :
         comparisons.comparisons[k].group1_data.indicator_name
           = comparisons.comparisons[k].group2_data.indicator_name

\* the measurement of an indicator that is complete and plausible
SoundMeasurement == Measurement(Num(100), Num(20), SomeStr(<<"S", "D">>), Num(30))

\* C3: no single indicator makes convert_bar_data raise: a bad indicator is
\* skipped, and every sound indicator of the table appears in the results.
C3_BadIndicatorSkipped ==
    /\ pc # "convert_failed"
    /\ pc = "converted"
       => \A g \in GroupNames : \A i \in 1..NumIndicators :
            groups[g][i] = SoundMeasurement
            => \E k \in 1..Len(results[g]) :
                 results[g][k].indicator_name = IndicatorName(i)

\* C4: no record with sample_size <= 0, or with sd <= 0, appears in the
\* results convert_bar_data hands to the comparator.
C4_ResultsPositive ==
    pc = "converted"
    => \A g \in GroupNames : \A k \in 1..Len(results[g]) :
         /\ results[g][k].sample_size > 0
         /\ results[g][k].sd.s > 0

(***************************************************************************)
(* Properties of detect_error_type (SpecDetect).                           *)
(***************************************************************************)
AllPresent ==
    detIn.mean.kind = "num" /\ detIn.error_bar.kind = "num"
    /\ detIn.sample_size.kind = "num"

\* C5: detect_error_type never raises for numbers or absent values and any
\* declared string: it returns a (type, confidence) pair; the sqrt of a
\* negative sample size and the division by a zero one are absorbed.
C5_DetectNeverRaises ==
    detOut.called
    => /\ detOut.raised = NoExc
       /\ detOut.type # ""
       /\ detOut.confidence \in 0..10000

\* C5 witness: an unrecognized label, a positive error bar and sample size 0
\* (the division by sqrt(0)) end in (UNKNOWN, 0.0)
C5_Witness ==
    /\ detOut.called /\ AllPresent
    /\ detIn.declared_type = SomeStr(<<"f", "o", "o">>)
    /\ detIn.error_bar.val > 0 /\ detIn.sample_size.val = 0
    /\ detOut.raised = NoExc /\ detOut.type = "UNKNOWN" /\ detOut.confidence = 0

\* C6: if any of mean, error_bar, sample_size is None the result is exactly
\* (UNKNOWN, 0.0), whatever the declared type and the other values.
C6_MissingDataUnknown ==
    (detOut.called /\ ~AllPresent)
    => detOut.raised = NoExc /\ detOut.type = "UNKNOWN" /\ detOut.confidence = 0

\* C6 witness: only the mean is missing, under a plausible SD declaration
C6_Witness ==
    /\ detOut.called
    /\ detIn.mean.kind = "none"
    /\ detIn.error_bar = Num(20) /\ detIn.sample_size = Num(30)
    /\ detIn.declared_type = SomeStr(<<"S", "D">>)
    /\ detOut.type = "UNKNOWN" /\ detOut.confidence = 0

\* the recognized type a declared label stands for after trimming,
\* upper-casing and alias resolution; "" when it stands for none
DeclaredCanonical(declared) ==
    IF ~declared.present THEN ""
    ELSE CASE declared.chars \in {<<"S", "D">>, <<"S", "T", "D">>} -> "SD"
           [] declared.chars \in {<<"s", "e">>, <<" ", "s", "e", "m", " ">>,
                                  <<"s", "t", "d", "e", "r", "r">>} -> "SE"
           [] declared.chars = <<"C", "I", "9", "5">> -> "CI95"
           [] declared.chars = <<"c", "i", "9", "9", " ">> -> "CI99"
           [] declared.chars = <<"2", "s", "e">> -> "2SE"
           [] declared.chars \in {<<"A", "S", "Y", "M", "M", "E", "T", "R", "I", "C">>,
                                  <<"a", "s", "y", "m">>,
                                  <<"A", "s", "y", "m", "m">>} -> "ASYMMETRIC"
           [] OTHER -> ""

\* the plausibility confidence of a recognized type on the call's numbers
DeclaredConfidence ==
    ValidateConfidence(detIn.mean.val, detIn.error_bar.val,
                       DeclaredCanonical(detIn.declared_type), detIn.sample_size.val)

\* the declared label is recognized and its validation exceeds 0.5
DeclaredPlausible ==
    DeclaredCanonical(detIn.declared_type) # "" /\ DeclaredConfidence > 5000

\* C7: a declared label that resolves to a recognized type T whose validation
\* confidence c exceeds 0.5 is returned as (T, c).
C7_DeclaredWinsWhenPlausible ==
    (detOut.called /\ AllPresent /\ DeclaredPlausible)
    => /\ detOut.raised = NoExc
       /\ detOut.type = DeclaredCanonical(detIn.declared_type)
       /\ detOut.confidence = DeclaredConfidence

\* C7 witness: the padded lower-case alias " sem " wins as SE with confidence
\* 0.6 although auto-detection prefers another type with at least 0.7
C7_Witness ==
    /\ detOut.called /\ AllPresent
    /\ detIn.declared_type = SomeStr(<<" ", "s", "e", "m", " ">>)
    /\ detOut.type = "SE" /\ detOut.confidence = 6000
    /\ AutoDetectType(detIn.mean.val, detIn.error_bar, detIn.sample_size.val).type # "SE"
    /\ AutoDetectType(detIn.mean.val, detIn.error_bar,
                      detIn.sample_size.val).confidence >= 7000

\* C8: when the declared type did not win by validation: a recognized label
\* is returned with 0.6 if the best auto-detection confidence is below 0.7;
\* in every other case the auto-detected (type, confidence) is returned.
C8_FallbackToDeclared ==
    (detOut.called /\ AllPresent /\ ~DeclaredPlausible)
    => \E auto \in {AutoDetectType(detIn.mean.val, detIn.error_bar,
                                   detIn.sample_size.val)} :
         /\ detOut.raised = NoExc
         /\ IF auto.confidence < 7000 /\ DeclaredCanonical(detIn.declared_type) # ""
            THEN /\ detOut.type = DeclaredCanonical(detIn.declared_type)
                 /\ detOut.confidence = 6000
            ELSE /\ detOut.type = auto.type
                 /\ detOut.confidence = auto.confidence

\* C8 witness: a recognized label whose validation gave at most 0.5 is
\* overruled by an auto-detection of exactly 0.7
C8_Witness ==
    /\ detOut.called /\ AllPresent /\ ~DeclaredPlausible
    /\ DeclaredCanonical(detIn.declared_type) # ""
    /\ detIn.error_bar.val > 0 /\ detIn.sample_size.val > 0
    /\ detOut.confidence = 7000
    /\ detOut.type # DeclaredCanonical(detIn.declared_type)

\* C9: the returned type is one of SD, SE, CI95, CI99, 2SE, ASYMMETRIC,
\* UNKNOWN (never an alias, never the raw label), the confidence lies in
\* [0, 1], and every returned type but UNKNOWN is accepted by
\* convert_to_mean_sd.
C9_ClosedEnumeration ==
    detOut.called
    => /\ detOut.type \in {"SD", "SE", "CI95", "CI99", "2SE", "ASYMMETRIC", "UNKNOWN"}
       /\ detOut.confidence >= 0 /\ detOut.confidence <= 10000
       /\ detOut.type # "UNKNOWN"
          => ConvertToMeanSd(100, 20, detOut.type, 4).raised = NoExc

\* C9 witness: the alias "stderr" comes back as SE
C9_Witness ==
    /\ detOut.called /\ AllPresent
    /\ detIn.declared_type = SomeStr(<<"s", "t", "d", "e", "r", "r">>)
    /\ detOut.type = "SE" /\ detOut.confidence = 9000

\* the three numbers of a call where all of them are present
CallMean == detIn.mean.val
CallErrorBar == detIn.error_bar.val
CallSampleSize == detIn.sample_size.val
CallAbsMean == IF CallMean < 0 THEN 0 - CallMean ELSE CallMean

\* the confidences _validate_declared_type has for a type's plausible and
\* implausible case
TypeConfidences(t) ==
    CASE t \in {"SD", "SE"} -> {9000, 6000}
      [] t \in {"CI95", "CI99", "2SE"} -> {8000, 5000}
      [] OTHER -> {7000}

\* C23: for a recognized declared type, _validate_declared_type gives 0.0
\* when error_bar <= 0 or sample_size <= 0, 0.3 when both are positive and
\* error_bar > 3 * |mean|, and only otherwise a value of the type's pair
\* (0.9/0.6 for SD and SE, 0.8/0.5 for CI95, CI99 and 2SE, 0.7 for
\* ASYMMETRIC); a value above 0.5 is what detect_error_type then returns.
C23_ValidationConfidence ==
    (detOut.called /\ AllPresent /\ DeclaredCanonical(detIn.declared_type) # "")
    => \E c \in {DeclaredConfidence} :
         /\ (CallErrorBar <= 0 \/ CallSampleSize <= 0) => c = 0
         /\ (CallErrorBar > 0 /\ CallSampleSize > 0 /\ CallErrorBar > 3 * CallAbsMean)
            => c = 3000
         /\ (CallErrorBar > 0 /\ CallSampleSize > 0 /\ CallErrorBar <= 3 * CallAbsMean)
            => c \in TypeConfidences(DeclaredCanonical(detIn.declared_type))
         /\ c > 5000
            => /\ detOut.type = DeclaredCanonical(detIn.declared_type)
               /\ detOut.confidence = c

\* C23 witness: a declared SE whose error bar exceeds 3 * |mean| is capped at
\* 0.3, so the declaration does not win and auto-detection answers SD
C23_Witness ==
    /\ detOut.called /\ AllPresent
    /\ detIn.declared_type = SomeStr(<<"s", "e">>)
    /\ CallMean = 5 /\ CallErrorBar = 20 /\ CallSampleSize = 4
    /\ DeclaredConfidence = 3000
    /\ detOut.type = "SD" /\ detOut.confidence = 7000

\* C24: with all three numbers present the result is UNKNOWN exactly when the
\* declared type is not recognized and error_bar <= 0 or sample_size <= 0; a
\* recognized declared type with error_bar <= 0 or sample_size <= 0 comes
\* back as (declared type, 0.6).
C24_UnknownExactly ==
    (detOut.called /\ AllPresent)
    => /\ detOut.type = "UNKNOWN"
          <=> /\ DeclaredCanonical(detIn.declared_type) = ""
              /\ (CallErrorBar <= 0 \/ CallSampleSize <= 0)
       /\ (/\ DeclaredCanonical(detIn.declared_type) # ""
           /\ (CallErrorBar <= 0 \/ CallSampleSize <= 0))
          => /\ detOut.type = DeclaredCanonical(detIn.declared_type)
             /\ detOut.confidence = 6000

\* C24 witness: a declared CI95 with a positive error bar and sample size 0
\* comes back as (CI95, 0.6)
C24_Witness ==
    /\ detOut.called /\ AllPresent
    /\ detIn.declared_type = SomeStr(<<"C", "I", "9", "5">>)
    /\ CallErrorBar > 0 /\ CallSampleSize = 0
    /\ detOut.type = "CI95" /\ detOut.confidence = 6000

\* C25: when error_bar > 0, sample_size >= 2 and error_bar > 3 * |mean| (so
\* whenever mean = 0) the result is (SD, 0.7) whatever the declared type.
C25_GrosslyLargeIsSd ==
    (/\ detOut.called /\ AllPresent
     /\ CallErrorBar > 0 /\ CallSampleSize >= 2 /\ CallErrorBar > 3 * CallAbsMean)
    => detOut.raised = NoExc /\ detOut.type = "SD" /\ detOut.confidence = 7000

\* C25 witness: mean 0 under a declared CI99 comes back as (SD, 0.7)
C25_Witness ==
    /\ detOut.called /\ AllPresent
    /\ detIn.declared_type = SomeStr(<<"c", "i", "9", "9", " ">>)
    /\ CallMean = 0 /\ CallErrorBar = 5 /\ CallSampleSize = MaxN
    /\ detOut.type = "SD" /\ detOut.confidence = 7000

\* the fixed order of the auto-detection candidates
CandidateOrder == <<"SD", "SE", "CI95", "CI99", "2SE">>

\* the call's result is the candidate of the largest score, the earliest in
\* CandidateOrder among equals (for error_bar > 0 and sample_size > 0)
ReturnsFirstMaximum ==
    \E c \in {Candidates(CallMean, CallErrorBar, CallSampleSize)} :
        /\ Len(c) = 5
        /\ \A i \in 1..5 : c[i][1] = CandidateOrder[i]
        /\ \E i \in 1..5 :
             /\ detOut.type = c[i][1] /\ detOut.confidence = c[i][2]
             /\ \A j \in 1..5 : c[j][2] <= c[i][2]
             /\ \A j \in 1..(i - 1) : c[j][2] < c[i][2]

\* a call whose label is absent or unrecognized returns what auto-detection
\* returns
AutoDetectionObserved ==
    detOut.called /\ AllPresent /\ DeclaredCanonical(detIn.declared_type) = ""

\* C26 as stated: auto-detection returns (UNKNOWN, 0.0) when error_bar <= 0
\* and, whenever error_bar > 0, one of the five candidates SD, SE, CI95, CI99,
\* 2SE: the one of maximum score, the earliest in that order among equals.
C26_FiveCandidatesWheneverPositiveBar ==
    AutoDetectionObserved
    => IF CallErrorBar <= 0
       THEN detOut.type = "UNKNOWN" /\ detOut.confidence = 0
       ELSE /\ detOut.type \in {CandidateOrder[i] : i \in 1..5}
            /\ CallSampleSize > 0 => ReturnsFirstMaximum

\* C26 amended: auto-detection returns (UNKNOWN, 0.0) when error_bar <= 0 or
\* sample_size <= 0 and, when both are positive, the candidate of maximum
\* score among SD, SE, CI95, CI99, 2SE, the earliest in that order among
\* equals.
C26_FiveCandidatesWhenBothPositive ==
    AutoDetectionObserved
    => IF CallErrorBar <= 0 \/ CallSampleSize <= 0
       THEN detOut.type = "UNKNOWN" /\ detOut.confidence = 0
       ELSE ReturnsFirstMaximum

\* C26 witness: SD and SE tie at the largest score and SD, the earlier, is
\* returned
C26_Witness ==
    /\ AutoDetectionObserved
    /\ CallErrorBar > 0 /\ CallSampleSize > 0
    /\ \E c \in {Candidates(CallMean, CallErrorBar, CallSampleSize)} :
         /\ c[1][2] = c[2][2]
         /\ \A j \in 3..5 : c[j][2] <= c[1][2]
         /\ detOut.type = "SD" /\ detOut.confidence = c[1][2]

\* the declared-type fallback was taken: a recognized label whose validation
\* did not exceed 0.5 is returned with 0.6
FallbackTaken ==
    /\ DeclaredCanonical(detIn.declared_type) # "" /\ ~DeclaredPlausible
    /\ detOut.type = DeclaredCanonical(detIn.declared_type)
    /\ detOut.confidence = 6000

\* C27: for every mean, error_bar > 0 and sample_size >= 2 the best
\* auto-detection score is at least 0.7 and the selected candidate is never
\* CI95 or CI99, the SD candidate scoring at least as high as either; hence
\* the declared-type fallback with confidence 0.6 occurs only when
\* sample_size = 1 or error_bar or sample_size is non-positive.
C27_BestScoreAtLeastPoint7 ==
    (detOut.called /\ AllPresent)
    => /\ (CallErrorBar > 0 /\ CallSampleSize >= 2)
          => \E auto \in {AutoDetectType(CallMean, detIn.error_bar, CallSampleSize)} :
               /\ auto.confidence >= 7000
               /\ auto.type \notin {"CI95", "CI99"}
               /\ \E c \in {Candidates(CallMean, CallErrorBar, CallSampleSize)} :
                    c[1][2] >= c[3][2] /\ c[1][2] >= c[4][2]
               /\ DeclaredCanonical(detIn.declared_type) = ""
                  => detOut.type = auto.type /\ detOut.confidence = auto.confidence
       /\ FallbackTaken
          => CallSampleSize = 1 \/ CallErrorBar <= 0 \/ CallSampleSize <= 0

\* C27 witness: the CI95 candidate reaches its ceiling 0.8 at a sample size
\* of at least 2 and the unlabelled call still returns another type
C27_Witness ==
    /\ AutoDetectionObserved
    /\ CallErrorBar > 0 /\ CallSampleSize >= 2
    /\ Candidates(CallMean, CallErrorBar, CallSampleSize)[3][2] = 8000
    /\ detOut.type \notin {"CI95", "CI99", "UNKNOWN"}
    /\ detOut.confidence >= 8000

\* a second case of C27: at sample size 1 the best score is 0.5 and a declared
\* CI95 falls back to (CI95, 0.6)
C27_FallbackAtOne ==
    /\ detOut.called /\ AllPresent /\ FallbackTaken
    /\ CallErrorBar > 0 /\ CallSampleSize = 1
    /\ AutoDetectType(CallMean, detIn.error_bar, CallSampleSize).confidence = 5000

(***************************************************************************)
(* Properties of convert_to_mean_sd (SpecConvert).                         *)
(***************************************************************************)
\* C10: convert_to_mean_sd raises the unsupported-type ValueError, whose
\* message carries the type string, exactly when the type is not one of SD,
\* SE, CI95, CI99, 2SE, ASYMMETRIC; for these six it returns a record for
\* every mean, error bar and sample size > 0.
C10_UnsupportedTypeExactly ==
    convOut.called
    => /\ (/\ convOut.result.raised = "ValueError"
           /\ convOut.result.message = UnsupportedMessage(convIn.error_type))
          <=> convIn.error_type \notin {"SD", "SE", "CI95", "CI99", "2SE", "ASYMMETRIC"}
       /\ (/\ convIn.error_type \in {"SD", "SE", "CI95", "CI99", "2SE", "ASYMMETRIC"}
           /\ convIn.sample_size > 0)
          => /\ convOut.result.raised = NoExc
             /\ convOut.result.original_error_type = convIn.error_type
             /\ convOut.result.sample_size = convIn.sample_size

\* C10 witness: the un-normalized alias SEM is refused with its name in the
\* message
C10_Witness ==
    /\ convOut.called
    /\ convIn.error_type = "SEM" /\ convIn.sample_size > 0
    /\ convOut.result.raised = "ValueError"
    /\ convOut.result.message = UnsupportedMessage("SEM")

====
